---- MODULE Spec2Model ----
(***************************************************************************)
(* A state-machine model of LitNodeClientNodeJs (lit-node-client-nodejs):  *)
(* the session-signature orchestrator (getSessionSigs, #getWalletSig,      *)
(* #checkNeedToResignSessionKey, #authCallbackAndUpdateStorageItem,        *)
(* getSessionKey) and the request operations that fan out to the nodes.    *)
(***************************************************************************)
EXTENDS Integers, Sequences, FiniteSets, TLC

\* ------------------------------------------------------------------ bounds
NumNodes == 2
MaxKeys == 2
RetryTolerance == 2
MinNodeCount == 1
MaxCounter == 4
MaxDigestLen == 2

\* ------------------------------------------------------------ option values
None == <<>>
Some(v) == <<v>>
IsSome(o) == o # <<>>
Get(o) == o[1]

Range(s) == {s[i] : i \in DOMAIN s}

\* --------------------------------------------------------------- constants
LIT_SESSION_KEY_URI == "lit:session:"

\* this.config.bootstrapUrls: the node URLs, in configuration order
bootstrapUrls == [i \in 1..NumNodes |-> i]
Nodes == 1..NumNodes

\* ------------------------------------------------ JSON text in the key store
\* JSON.stringify(v): a text that JSON.parse turns back into v
JSONstringify(v) == [text |-> "json", val |-> Some(v)]
\* a stored text that is not valid JSON
GarbageText == [text |-> "garbage", val |-> None]
\* JSON.parse(t): Some(v), or None when it throws SyntaxError
JSONparse(t) == IF t.text = "json" THEN t.val ELSE None

\* getStorageItem(key) gives ERROR or an empty result: the item is missing
StorageMissing(slot) == IF IsSome(slot) THEN Get(slot).text = "" ELSE TRUE

\* ------------------------------------------------------- capability objects
\* A resource is <<prefix, id>>; id "*" is the wildcard of its prefix.
LitPKPResource(id) == <<"lit-pkp", id>>
LitActionResource(id) == <<"lit-litaction", id>>
PKPSigning == "pkp-signing"
LitActionExecution == "lit-action-execution"
AllAbilities == "*/*"

\* A capability object is a set of grants <<resource key, ability>>.
addCapability(cap, r, a) == cap \cup {<<r, a>>}
addAllCapabilitiesForResource(cap, r) == cap \cup {<<r, AllAbilities>>}

\* true iff a wildcard grant or an exact match is present
verifyCapabilitiesForResource(cap, r, a) ==
    \E g \in cap : /\ g[1] \in {r, <<r[1], "*">>}
                   /\ g[2] \in {a, AllAbilities}

\* the SIWE resource URI of a capability object, and its decoding
encodeAsSiweResource(cap) == [urn |-> "urn:recap:", body |-> cap]
decode(res) == res.body

RECURSIVE addAllFor(_, _)
addAllFor(cap, litResources) ==
    IF litResources = <<>> THEN cap
    ELSE addAllFor(addAllCapabilitiesForResource(cap, Head(litResources)),
                   Tail(litResources))

\* static generateSessionCapabilityObjectWithWildcards(litResources, addAllCapabilities)
generateWithWildcardsStatic(litResources, addAllCapabilities) ==
    LET _addAllCapabilities ==
            IF IsSome(addAllCapabilities) THEN Get(addAllCapabilities) ELSE FALSE
    IN  IF _addAllCapabilities THEN addAllFor({}, litResources) ELSE {}

\* the instance method (backward compatibility): no second argument
generateSessionCapabilityObjectWithWildcards(litResources) ==
    generateWithWildcardsStatic(litResources, None)

\* ------------------------------------------------------------- AuthSig, SIWE
SiweText(uri, resources) == [uri |-> uri, resources |-> resources]

AuthSigOf(sig, address, uri, resources) ==
    [sig |-> sig, derivedVia |-> "web3.eth.personal.sign",
     signedMessage |-> SiweText(uri, resources), address |-> address]

\* the value of a field the object does not have
Undefined == "undefined (no such field)"

\* SiweMessage.validate(sig): the signature verifies the message
SiweValidate(message, sig) == sig = "0xgood"

\* #checkNeedToResignSessionKey, lines 213-270
\* (defined below, after the loop it runs)

\* #getSessionKeyUri
getSessionKeyUri(publicKey) == <<LIT_SESSION_KEY_URI, publicKey>>

SessionKeyPair(k) == [publicKey |-> k, secretKey |-> k + 100]

\* ---------------------------------------------------- the re-sign predicate
RECURSIVE capabilitiesMismatch(_, _)
\* the for loop of #checkNeedToResignSessionKey: true at the first request
\* the capability object does not cover
capabilitiesMismatch(cap, resourceAbilityRequests) ==
    IF resourceAbilityRequests = <<>> THEN FALSE
    ELSE LET rar == Head(resourceAbilityRequests)
         IN  IF ~verifyCapabilitiesForResource(cap, rar.resource, rar.ability)
             THEN TRUE
             ELSE capabilitiesMismatch(cap, Tail(resourceAbilityRequests))

\* variants of the predicate with one of its checks left out
checkNeedToResignNoCaps(authSig, sessionKeyUri, resourceAbilityRequests) ==
    LET m == authSig.signedMessage
    IN  IF ~SiweValidate(m, authSig.sig) THEN TRUE
        ELSE IF m.uri # sessionKeyUri THEN TRUE
        ELSE IF Len(m.resources) = 0 THEN TRUE
        ELSE FALSE

checkNeedToResignNoValidate(authSig, sessionKeyUri, resourceAbilityRequests) ==
    LET m == authSig.signedMessage
    IN  IF m.uri # sessionKeyUri THEN TRUE
        ELSE IF Len(m.resources) = 0 THEN TRUE
        ELSE capabilitiesMismatch(decode(m.resources[1]), resourceAbilityRequests)

checkNeedToResignNoUri(authSig, sessionKeyUri, resourceAbilityRequests) ==
    LET m == authSig.signedMessage
    IN  IF ~SiweValidate(m, authSig.sig) THEN TRUE
        ELSE IF Len(m.resources) = 0 THEN TRUE
        ELSE capabilitiesMismatch(decode(m.resources[1]), resourceAbilityRequests)

checkNeedToResignSessionKey(authSig, sessionKeyUri, resourceAbilityRequests) ==
    LET m == authSig.signedMessage
    IN  IF ~SiweValidate(m, authSig.sig) THEN TRUE
        ELSE IF m.uri # sessionKeyUri THEN TRUE
        ELSE IF Len(m.resources) = 0 THEN TRUE
        ELSE capabilitiesMismatch(decode(m.resources[1]), resourceAbilityRequests)

\* ------------------------------------------------------------------- state
VARIABLES
    connState,            \* "Unconnected" | "Connecting" | "Ready" (this.ready)
    connectedNodes,       \* this.connectedNodes, in insertion order
    latestBlockhash,      \* this.latestBlockhash: None while undefined
    defaultAuthCallback,  \* whether the constructor was given a defaultAuthCallback
    storageUp,            \* whether the local key store can be read
    walletSlot,           \* LOCAL_STORAGE_KEYS.WALLET_SIGNATURE: None or Some(text)
    sessionKeySlot,       \* LOCAL_STORAGE_KEYS.SESSION_KEY: None or Some(text)
    nextKey,              \* the next key pair generateSessionKeyPair() returns
    gs,                   \* the getSessionSigs calls, by call id
    last                  \* the request operation in progress or last finished

vars == <<connState, connectedNodes, latestBlockhash, defaultAuthCallback,
          storageUp, walletSlot, sessionKeySlot, nextKey, gs, last>>

connVars == <<connState, connectedNodes, latestBlockhash>>
storeVars == <<walletSlot, sessionKeySlot, nextKey>>

ready == connState = "Ready"

CallIds == {1, 2}

\* ----------------------------------------------- inputs of getSessionSigs
PkpSignRequest == [resource |-> LitPKPResource("*"), ability |-> PKPSigning]
ActionExecRequest == [resource |-> LitActionResource("*"), ability |-> LitActionExecution]
PkpOneSignRequest == [resource |-> LitPKPResource("k1"), ability |-> PKPSigning]

RequestLists ==
    {<<>>, <<PkpSignRequest>>, <<PkpSignRequest, ActionExecRequest>>, <<PkpOneSignRequest>>}

RECURSIVE resourcesOf(_)
\* params.resourceAbilityRequests.map((r) => r.resource)
resourcesOf(rars) ==
    IF rars = <<>> THEN <<>> ELSE <<Head(rars).resource>> \o resourcesOf(Tail(rars))

\* a capability object a caller may build for the requests: all abilities on
\* every requested resource
CapabilityFor(rars) == addAllFor({}, resourcesOf(rars))

\* capability objects of stored AuthSigs and of callbacks
CapActionOnly == {<<LitActionResource("*"), LitActionExecution>>}
CapPkpAndAction == {<<LitPKPResource("*"), PKPSigning>>,
                    <<LitActionResource("*"), LitActionExecution>>}

\* the session key a caller may pass in params.sessionKey
CallerKey == SessionKeyPair(0)

DelegationAuthSig ==
    AuthSigOf("0xgood", "0xDapp", <<"lit:capability:delegation", 0>>,
              <<encodeAsSiweResource({})>>)
OtherCapabilityAuthSig ==
    AuthSigOf("0xgood", "0xOther", <<"lit:capability:delegation", 1>>,
              <<encodeAsSiweResource({})>>)

\* an AuthSig of the caller's wallet for CallerKey, which a caller may also
\* pass in capabilityAuthSigs
WalletEchoAuthSig ==
    AuthSigOf("0xgood", "0xWallet", getSessionKeyUri(CallerKey.publicKey),
              <<encodeAsSiweResource(CapabilityFor(<<PkpSignRequest>>))>>)

\* the calls made through getLitActionSessionSigs
LitActionExtras == {"actionCode", "actionBoth", "actionNeither", "actionNoJsParams"}

GetSessionSigsProps ==
    {[resourceAbilityRequests |-> <<PkpSignRequest, ActionExecRequest>>,
      authNeededCallback |-> TRUE, sessionCapabilityObject |-> "absent",
      sessionKey |-> None, extras |-> "plain"],
     [resourceAbilityRequests |-> <<PkpSignRequest>>,
      authNeededCallback |-> TRUE, sessionCapabilityObject |-> "covering",
      sessionKey |-> None, extras |-> "plain"],
     [resourceAbilityRequests |-> <<PkpSignRequest, ActionExecRequest>>,
      authNeededCallback |-> FALSE, sessionCapabilityObject |-> "absent",
      sessionKey |-> None, extras |-> "plain"],
     [resourceAbilityRequests |-> <<>>,
      authNeededCallback |-> TRUE, sessionCapabilityObject |-> "absent",
      sessionKey |-> None, extras |-> "delegated"],
     [resourceAbilityRequests |-> <<PkpOneSignRequest>>,
      authNeededCallback |-> TRUE, sessionCapabilityObject |-> "covering",
      sessionKey |-> Some(CallerKey), extras |-> "delegated"],
     [resourceAbilityRequests |-> <<PkpSignRequest>>,
      authNeededCallback |-> FALSE, sessionCapabilityObject |-> "covering",
      sessionKey |-> Some(CallerKey), extras |-> "plain"],
     [resourceAbilityRequests |-> <<PkpSignRequest>>,
      authNeededCallback |-> TRUE, sessionCapabilityObject |-> "covering",
      sessionKey |-> Some(CallerKey), extras |-> "echo"]}
    \cup {[resourceAbilityRequests |-> <<PkpSignRequest, ActionExecRequest>>,
            authNeededCallback |-> TRUE, sessionCapabilityObject |-> "covering",
            sessionKey |-> None, extras |-> x] : x \in LitActionExtras}

\* the params of getLitActionSessionSigs: litActionCode, litActionIpfsId, jsParams
viaLitAction(p) == p.extras \in LitActionExtras
litActionCodeOf(p) == p.extras \in {"actionCode", "actionBoth", "actionNoJsParams"}
litActionIpfsIdOf(p) == p.extras = "actionBoth"
jsParamsOf(p) == p.extras \in {"actionCode", "actionBoth", "actionNeither"}

\* getLitActionSessionSigs, lines 1211-1225: the error it throws before it
\* calls getPkpSessionSigs, "" when it throws none
getLitActionSessionSigsCheck(p) ==
    IF ~viaLitAction(p) THEN ""
    ELSE IF ~litActionCodeOf(p) /\ ~litActionIpfsIdOf(p) THEN "Error"
    ELSE IF ~jsParamsOf(p) THEN "Error"
    ELSE ""

\* the authNeededCallback of getPkpSessionSigs, lines 1146-1168: it throws
\* when both litActionCode and litActionIpfsId reach it
pkpCallbackThrows(p) ==
    viaLitAction(p) /\ litActionCodeOf(p) /\ litActionIpfsIdOf(p)

capabilityAuthSigsOf(p) ==
    IF p.extras = "delegated" THEN <<OtherCapabilityAuthSig>>
    ELSE IF p.extras = "echo" THEN <<WalletEchoAuthSig>>
    ELSE <<>>
capacityDelegationAuthSigOf(p) ==
    IF p.extras = "delegated" THEN Some(DelegationAuthSig) ELSE None
\* times are minutes from the moment of the call (Date.now())
CallerExpiration == 60

\* static getExpiration, lines 680-682: now + 24 h
getExpiration == 1440

\* the default of lines 1081-1082: now + 5 min
FiveMinutes == 5

\* params.expiration
expirationOf(p) ==
    IF p.extras = "delegated" THEN Some(CallerExpiration) ELSE None

\* line 998: params.expiration || LitNodeClientNodeJs.getExpiration()
expirationUsed(p) ==
    IF IsSome(expirationOf(p)) THEN Get(expirationOf(p)) ELSE getExpiration

\* lines 1081-1082: expiration ?? now + 5 min
sessionExpirationOf(expiration) ==
    IF IsSome(expiration) THEN Get(expiration) ELSE FiveMinutes

\* the AuthSigs an auth callback may return for the parameters it is given:
\* the conforming one, the one built from resourceAbilityRequests, and
\* answers that break the wallet contract (another session key's uri, an
\* empty address, no address field at all, fewer capabilities than asked for)
CallbackReturns(args) ==
    LET res == IF IsSome(args.resources) THEN Get(args.resources) ELSE <<>>
        other == getSessionKeyUri(args.uri[2] + 1)
    IN  {AuthSigOf("0xgood", "0xWallet", args.uri, res),
         AuthSigOf("0xgood", "0xWallet", other, res),
         AuthSigOf("0xgood", "", args.uri, res),
         AuthSigOf("0xgood", Undefined, args.uri, res),
         AuthSigOf("0xgood", "0xWallet", args.uri,
                   <<encodeAsSiweResource(CapActionOnly)>>)}
        \cup (IF IsSome(args.resourceAbilityRequests)
              THEN {AuthSigOf("0xgood", "0xWallet", args.uri,
                              <<encodeAsSiweResource(
                                    CapabilityFor(Get(args.resourceAbilityRequests)))>>)}
              ELSE {})

\* what the WALLET_SIGNATURE slot may hold when the client is constructed
StoredAuthSigs ==
    {AuthSigOf("0xgood", "0xWallet", getSessionKeyUri(k), <<encodeAsSiweResource(c)>>) :
        k \in {0, 1}, c \in {CapActionOnly, CapPkpAndAction}}
    \cup {AuthSigOf("0xbad", "0xWallet", getSessionKeyUri(1),
                    <<encodeAsSiweResource(CapPkpAndAction)>>),
          AuthSigOf("0xgood", "0xWallet", getSessionKeyUri(1), <<>>),
          AuthSigOf("0xgood", "", getSessionKeyUri(1),
                    <<encodeAsSiweResource(CapPkpAndAction)>>)}

\* ------------------------------------------------------ getSessionSigs call
GsIdle ==
    [pc |-> "idle", p |-> None, sessionKey |-> None, capObj |-> {},
     stored |-> None, checked |-> None, authSig |-> None, need |-> None,
     cbLog |-> <<>>, err |-> "", result |-> None, keyRead |-> None]

GsFail(g, kind) == [g EXCEPT !.pc = "done", !.err = kind]

uriOf(g) == getSessionKeyUri(Get(g.sessionKey).publicKey)
rarsOf(g) == Get(g.p).resourceAbilityRequests

\* nacl.sign.detached(message, secretKey)
naclSignDetached(message, secretKey) == [signedBy |-> secretKey, over |-> message]

\* lines 1085-1091: the capability chain of the template
\* a variant that puts the wallet AuthSig first
capabilitiesWalletFirst(p, authSig) ==
    <<authSig>> \o capabilityAuthSigsOf(p)
        \o (IF IsSome(capacityDelegationAuthSigOf(p))
            THEN <<Get(capacityDelegationAuthSigOf(p))>> ELSE <<>>)

capabilitiesOf(p, authSig) ==
    IF IsSome(capacityDelegationAuthSigOf(p))
    THEN capabilityAuthSigsOf(p) \o <<Get(capacityDelegationAuthSigOf(p))>> \o <<authSig>>
    ELSE capabilityAuthSigsOf(p) \o <<authSig>>

\* lines 1093-1099
signingTemplateOf(g, authSig) ==
    [sessionKey |-> Get(g.sessionKey).publicKey,
     resourceAbilityRequests |-> rarsOf(g),
     capabilities |-> capabilitiesOf(Get(g.p), authSig),
     expiration |-> sessionExpirationOf(Some(expirationUsed(Get(g.p))))]

\* lines 1104-1125: the session sig of one node address
sessionSigFor(g, authSig, nodeAddress) ==
    LET toSign == [template |-> signingTemplateOf(g, authSig), nodeAddress |-> nodeAddress]
        signedMessage == JSONstringify(toSign)
    IN  [sig |-> naclSignDetached(signedMessage, Get(g.sessionKey).secretKey),
         derivedVia |-> "litSessionSignViaNacl",
         signedMessage |-> signedMessage,
         address |-> Get(g.sessionKey).publicKey,
         algo |-> "ed25519"]

\* a variant that signs for every bootstrap URL
signaturesOfBootstrap(g, authSig, nodes) ==
    [nodeAddress \in Nodes |-> sessionSigFor(g, authSig, nodeAddress)]

\* lines 1101-1130: this.connectedNodes.forEach(...)
signaturesOf(g, authSig, nodes) ==
    [nodeAddress \in Range(nodes) |-> sessionSigFor(g, authSig, nodeAddress)]

\* a variant in which a failed write of the new AuthSig is fatal
GsFinishWriteFatal(g, authSig, nodes) ==
    IF g.cbLog # <<>> /\ ~g.cbLog[Len(g.cbLog)].written
    THEN GsFail([g EXCEPT !.authSig = Some(authSig)], "StorageError")
    ELSE IF \/ authSig.address = ""
            \/ authSig.derivedVia = ""
            \/ authSig.sig = ""
    THEN GsFail([g EXCEPT !.authSig = Some(authSig)], "WalletSignatureNotFound")
    ELSE [g EXCEPT !.pc = "done", !.authSig = Some(authSig),
                   !.result = Some(signaturesOf(g, authSig, nodes))]

\* lines 1063-1131: the field check (=== '' on address, derivedVia, sig and
\* signedMessage; a signedMessage is never the empty string here) and the
\* per-node signing
GsFinish(g, authSig, nodes) ==
    IF \/ authSig.address = ""
       \/ authSig.derivedVia = ""
       \/ authSig.sig = ""
    THEN GsFail([g EXCEPT !.authSig = Some(authSig)], "WalletSignatureNotFound")
    ELSE [g EXCEPT !.pc = "done", !.authSig = Some(authSig),
                   !.result = Some(signaturesOf(g, authSig, nodes))]

\* a variant that leaves resourceAbilityRequests out
fullContextNoRequests(g) ==
    [uri |-> uriOf(g),
     resources |-> Some(<<encodeAsSiweResource(g.capObj)>>),
     expiration |-> expirationUsed(Get(g.p)), nonce |-> TRUE,
     sessionKey |-> g.sessionKey,
     resourceAbilityRequests |-> None]

\* the AuthCallbackParams of lines 1042-1059 (the re-sign) and of lines 377-396
\* (authNeededCallback in #getWalletSig): the full context
fullContext(g) ==
    [uri |-> uriOf(g),
     resources |-> Some(<<encodeAsSiweResource(g.capObj)>>),
     expiration |-> expirationUsed(Get(g.p)), nonce |-> TRUE,
     sessionKey |-> g.sessionKey,
     resourceAbilityRequests |-> Some(rarsOf(g))]

\* the AuthCallbackParams of lines 413-423 (defaultAuthCallback in #getWalletSig)
defaultContext(g) ==
    [uri |-> uriOf(g),
     resources |-> Some(<<encodeAsSiweResource(g.capObj)>>),
     expiration |-> expirationUsed(Get(g.p)), nonce |-> TRUE,
     sessionKey |-> None,
     resourceAbilityRequests |-> None]

\* a variant that signs the templates before the re-sign callback has answered
GsCheckSignsFirst(g, walletSig, hasDefault, nodes) ==
    IF ~IsSome(walletSig)
    THEN GsFail(g, "TypeError")
    ELSE [g EXCEPT !.pc = "cb2", !.checked = walletSig, !.need = Some(TRUE),
                   !.result = Some(signaturesOf(g, Get(walletSig), nodes)),
                   !.cbLog = @ \o <<[who |-> "authNeededCallback", step |-> "resign",
                                     args |-> fullContext(g), ret |-> None,
                                     written |-> FALSE, removed |-> FALSE]>>]

\* lines 1031-1061 up to the callback of #authCallbackAndUpdateStorageItem
GsCheck(g, walletSig, hasDefault, nodes) ==
    IF ~IsSome(walletSig)
    THEN GsFail(g, "TypeError")      \* authSig.signedMessage of undefined
    ELSE LET authSig == Get(walletSig)
             need == checkNeedToResignSessionKey(authSig, uriOf(g), rarsOf(g))
             g1 == [g EXCEPT !.authSig = walletSig, !.checked = walletSig,
                             !.need = Some(need)]
         IN  IF ~need THEN GsFinish(g1, authSig, nodes)
             ELSE IF Get(g.p).authNeededCallback
             THEN [g1 EXCEPT !.pc = "cb2",
                             !.cbLog = @ \o <<[who |-> "authNeededCallback", step |-> "resign",
                                             args |-> fullContext(g), ret |-> None,
                                             written |-> FALSE, removed |-> FALSE]>>]
             ELSE IF ~hasDefault THEN GsFail(g1, "ParamsMissing")
             ELSE [g1 EXCEPT !.pc = "cb2",
                             !.cbLog = @ \o <<[who |-> "defaultAuthCallback", step |-> "resign",
                                             args |-> fullContext(g), ret |-> None,
                                             written |-> FALSE, removed |-> FALSE]>>]

\* a variant that never uses the stored AuthSig
GsWalletSigNoCache(g, slot, hasDefault, nodes) ==
    LET g0 == [g EXCEPT !.stored = Some(slot)]
    IN  IF Get(g.p).authNeededCallback
        THEN [g0 EXCEPT !.pc = "cb1",
                        !.cbLog = <<[who |-> "authNeededCallback", step |-> "getWalletSig",
                                     args |-> fullContext(g), ret |-> None,
                                     written |-> FALSE, removed |-> FALSE]>>]
        ELSE IF ~hasDefault THEN GsFail(g0, "ParamsMissing")
        ELSE [g0 EXCEPT !.pc = "cb1",
                        !.cbLog = <<[who |-> "defaultAuthCallback", step |-> "getWalletSig",
                                     args |-> defaultContext(g), ret |-> None,
                                     written |-> FALSE, removed |-> FALSE]>>]

\* #getWalletSig, lines 352-452, up to its callback or its return
GsWalletSig(g, slot, hasDefault, nodes) ==
    LET g0 == [g EXCEPT !.stored = Some(slot)]
    IN  IF StorageMissing(slot)
        THEN IF Get(g.p).authNeededCallback
             THEN [g0 EXCEPT !.pc = "cb1",
                             !.cbLog = <<[who |-> "authNeededCallback", step |-> "getWalletSig",
                                          args |-> fullContext(g), ret |-> None,
                                          written |-> FALSE, removed |-> FALSE]>>]
             ELSE IF ~hasDefault THEN GsFail(g0, "ParamsMissing")
             ELSE [g0 EXCEPT !.pc = "cb1",
                             !.cbLog = <<[who |-> "defaultAuthCallback", step |-> "getWalletSig",
                                          args |-> defaultContext(g), ret |-> None,
                                          written |-> FALSE, removed |-> FALSE]>>]
        ELSE GsCheck(g0, JSONparse(Get(slot)), hasDefault, nodes)

\* lines 988-1029 after the session key: capability object, blockhash, wallet sig
GsPrepare(g, slot, blockhash, hasDefault, nodes) ==
    LET p == Get(g.p)
        cap == IF p.sessionCapabilityObject = "covering"
               THEN CapabilityFor(p.resourceAbilityRequests)
               ELSE generateSessionCapabilityObjectWithWildcards(
                        resourcesOf(p.resourceAbilityRequests))
        g1 == [g EXCEPT !.capObj = cap]
    IN  IF ~IsSome(blockhash) THEN GsFail(g1, "InvalidEthBlockhash")
        ELSE GsWalletSig(g1, slot, hasDefault, nodes)

\* what getStorageItem hands back for a slot: its content, or (the read
\* fails) nothing
getStorageItem(slot) == IF storageUp THEN slot ELSE None

\* a variant of the test of lines 601-605 that never finds the stored key
sessionKeyAlwaysMissing(storedSessionKeyOrError) == TRUE

\* getSessionKey, lines 601-605
sessionKeyMissing(storedSessionKeyOrError) == StorageMissing(storedSessionKeyOrError)

\* getLitActionSessionSigs throws before getSessionSigs is called
GsLitActionRejects(c, p) ==
    /\ gs[c].pc \in {"idle", "done"}
    /\ getLitActionSessionSigsCheck(p) # ""
    /\ gs' = [gs EXCEPT ![c] =
                GsFail([GsIdle EXCEPT !.p = Some(p)], getLitActionSessionSigsCheck(p))]
    /\ UNCHANGED <<connVars, defaultAuthCallback, storageUp, storeVars, last>>

\* getSessionSigs with a session key in params
GsStartWithKey(c, p) ==
    /\ gs[c].pc \in {"idle", "done"}
    /\ getLitActionSessionSigsCheck(p) = ""
    /\ IsSome(p.sessionKey)
    /\ gs' = [gs EXCEPT ![c] =
                GsPrepare([GsIdle EXCEPT !.p = Some(p), !.sessionKey = p.sessionKey],
                          getStorageItem(walletSlot), latestBlockhash,
                          defaultAuthCallback, connectedNodes)]
    /\ UNCHANGED <<connVars, defaultAuthCallback, storageUp, storeVars, last>>

\* getSessionSigs without one: getSessionKey() finds the stored key (lines 623-625)
GsStartStoredKey(c, p) ==
    /\ gs[c].pc \in {"idle", "done"}
    /\ getLitActionSessionSigsCheck(p) = ""
    /\ ~IsSome(p.sessionKey)
    /\ ~sessionKeyMissing(getStorageItem(sessionKeySlot))
    /\ LET storedSessionKey == getStorageItem(sessionKeySlot)
           parsed == JSONparse(Get(storedSessionKey))
           g0 == [GsIdle EXCEPT !.p = Some(p), !.keyRead = Some(storedSessionKey)]
       IN  gs' = [gs EXCEPT ![c] =
                IF ~IsSome(parsed) THEN GsFail(g0, "SyntaxError")
                ELSE GsPrepare([g0 EXCEPT !.sessionKey = parsed],
                               getStorageItem(walletSlot), latestBlockhash,
                               defaultAuthCallback, connectedNodes)]
    /\ UNCHANGED <<connVars, defaultAuthCallback, storageUp, storeVars, last>>

\* getSessionSigs without one: getSessionKey() generates a key (lines 601-622)
GsStartNewKey(c, p) ==
    /\ gs[c].pc \in {"idle", "done"}
    /\ getLitActionSessionSigsCheck(p) = ""
    /\ ~IsSome(p.sessionKey)
    /\ nextKey <= MaxKeys
    /\ sessionKeyMissing(getStorageItem(sessionKeySlot))
    /\ LET newSessionKey == SessionKeyPair(nextKey)
       IN  /\ \E setOk \in BOOLEAN :
                 sessionKeySlot' = IF setOk THEN Some(JSONstringify(newSessionKey))
                                   ELSE sessionKeySlot
           /\ nextKey' = nextKey + 1
           /\ gs' = [gs EXCEPT ![c] =
                GsPrepare([GsIdle EXCEPT !.p = Some(p),
                                         !.sessionKey = Some(newSessionKey),
                                         !.keyRead = Some(getStorageItem(sessionKeySlot))],
                          getStorageItem(walletSlot), latestBlockhash,
                          defaultAuthCallback, connectedNodes)]
    /\ UNCHANGED <<connVars, defaultAuthCallback, storageUp, walletSlot, last>>

\* the callback of #getWalletSig returns (lines 400 / 413, then 426-452, then
\* the re-sign check of getSessionSigs)
GsWalletCallbackReturns(c) ==
    /\ gs[c].pc = "cb1"
    /\ ~pkpCallbackThrows(Get(gs[c].p))
    /\ \E ret \in CallbackReturns(gs[c].cbLog[1].args), setOk \in BOOLEAN :
          /\ walletSlot' = IF setOk THEN Some(JSONstringify(ret)) ELSE walletSlot
          /\ gs' = [gs EXCEPT ![c] =
                GsCheck([gs[c] EXCEPT !.cbLog[1].ret = Some(ret),
                                      !.cbLog[1].written = setOk], Some(ret),
                        defaultAuthCallback, connectedNodes)]
    /\ UNCHANGED <<connVars, defaultAuthCallback, storageUp, sessionKeySlot, nextKey, last>>

\* #authCallbackAndUpdateStorageItem after its callback (lines 181-204), then
\* lines 1063-1131
GsResignCallbackReturns(c) ==
    /\ gs[c].pc = "cb2"
    /\ ~pkpCallbackThrows(Get(gs[c].p))
    /\ LET n == Len(gs[c].cbLog)
       IN  \E ret \in CallbackReturns(gs[c].cbLog[n].args), setOk \in BOOLEAN,
              removeOk \in BOOLEAN :
              /\ walletSlot' = IF setOk THEN Some(JSONstringify(ret))
                               ELSE IF removeOk THEN None    \* removeStorageItem
                               ELSE walletSlot
              /\ gs' = [gs EXCEPT ![c] =
                    GsFinish([gs[c] EXCEPT !.cbLog[n].ret = Some(ret),
                                           !.cbLog[n].written = setOk,
                                           !.cbLog[n].removed = ~setOk /\ removeOk],
                             ret, connectedNodes)]
    /\ UNCHANGED <<connVars, defaultAuthCallback, storageUp, sessionKeySlot, nextKey, last>>

\* an auth callback throws (the user rejects the signature request)
GsCallbackThrows(c) ==
    /\ gs[c].pc \in {"cb1", "cb2"}
    /\ gs' = [gs EXCEPT ![c] = GsFail(gs[c], "CallbackError")]
    /\ UNCHANGED <<connVars, defaultAuthCallback, storageUp, storeVars, last>>

\* --------------------------------------------------------------- connection
\* connect(): Unconnected -> Connecting
ConnectStart ==
    /\ connState = "Unconnected"
    /\ connState' = "Connecting"
    /\ UNCHANGED <<connectedNodes, latestBlockhash, defaultAuthCallback, storageUp,
                   storeVars, gs, last>>

\* a node answers the handshake and joins connectedNodes
Handshake(n) ==
    /\ connState = "Connecting"
    /\ n \notin Range(connectedNodes)
    /\ connectedNodes' = Append(connectedNodes, n)
    /\ UNCHANGED <<connState, latestBlockhash, defaultAuthCallback, storageUp,
                   storeVars, gs, last>>

\* enough nodes answered: the client is Ready and knows the chain head
ConnectDone ==
    /\ connState = "Connecting"
    /\ Len(connectedNodes) >= MinNodeCount
    /\ connState' = "Ready"
    /\ latestBlockhash' = Some("0xblockhash")
    /\ UNCHANGED <<connectedNodes, defaultAuthCallback, storageUp, storeVars, gs, last>>

\* no call is between two of its steps
NoCallInProgress ==
    /\ \A c \in CallIds : gs[c].pc \in {"idle", "done"}
    /\ last.pc \in {"idle", "done"}

\* ------------------------------------------------------- request operations
Ops == {"executeJs", "pkpSign", "encrypt", "decrypt", "claimKeyId",
        "getSignedToken", "signSessionKey", "runOnTargetedNodes"}

\* the code strings handed to runOnTargetedNodes, and the IPFS id getIpfsId
\* obtains for each (lines 753-756)
Codes == {"codeA", "codeB"}

getIpfsId(code) ==
    IF code = "codeA" THEN "QmC"
    ELSE "QmRwN9GKHvCn4Vk7biqtr6adjXMs7PzzYPCzNCRjPFiDjm"

\* BigNumber.from(sha256(Buffer.from(`${nodeCounter}:${ipfsId}`))), lines
\* 764-767, for nodeCounter = 0..7: the SHA-256 digests of these strings, each
\* kept as its residue modulo 60, which leaves its residue modulo 1..6 exact
hashAsNumber(nodeCounter, ipfsId) ==
    IF ipfsId = "QmC"
    THEN <<16, 16, 27, 43, 49, 29, 47, 16>>[nodeCounter + 1]
    ELSE <<23, 16, 18, 3, 11, 2, 3, 0>>[nodeCounter + 1]

\* the params of a request: whether the shape checks pass, the sessionSigs map
\* (absent, or the set of urls it has an entry for), whether authSig and
\* authMethods are given, targetNodeRange, a WebAuthn auth method, and the code
\* of runOnTargetedNodes
NoParams ==
    [shapeOk |-> TRUE, sessionSigs |-> None, authSig |-> FALSE,
     authMethods |-> FALSE, targetNodeRange |-> 0, webAuthn |-> FALSE,
     code |-> "", mintCallback |-> FALSE, signer |-> FALSE,
     sessionKey |-> FALSE]

SessionSigsParams == {None} \cup {Some(D) : D \in (SUBSET Nodes) \ {{}}}

ParamsOf(op) ==
    CASE op \in {"executeJs"} ->
            {[NoParams EXCEPT !.shapeOk = ok, !.sessionSigs = ss] :
                ok \in BOOLEAN, ss \in SessionSigsParams}
      [] op = "pkpSign" ->
            {[NoParams EXCEPT !.shapeOk = ok, !.sessionSigs = ss] :
                ok \in BOOLEAN, ss \in SessionSigsParams}
            \cup {[NoParams EXCEPT !.authMethods = TRUE]}
      [] op = "decrypt" ->
            {[NoParams EXCEPT !.shapeOk = ok, !.sessionSigs = ss] :
                ok \in BOOLEAN, ss \in SessionSigsParams}
            \cup {[NoParams EXCEPT !.authSig = TRUE, !.sessionSigs = ss] :
                     ss \in SessionSigsParams}
      [] op = "getSignedToken" ->
            {[NoParams EXCEPT !.shapeOk = ok, !.sessionSigs = ss] :
                ok \in BOOLEAN, ss \in SessionSigsParams}
            \cup {[NoParams EXCEPT !.authSig = TRUE]}
      [] op = "encrypt" -> {[NoParams EXCEPT !.shapeOk = ok] : ok \in BOOLEAN}
      [] op = "claimKeyId" ->
            {[NoParams EXCEPT !.webAuthn = w, !.mintCallback = m, !.signer = sg] :
                w \in BOOLEAN, m \in BOOLEAN, sg \in BOOLEAN}
      [] op = "signSessionKey" ->
            {[NoParams EXCEPT !.sessionKey = k] : k \in BOOLEAN}
      [] OTHER ->
            {[NoParams EXCEPT !.targetNodeRange = k, !.sessionSigs = ss,
                              !.code = code] :
                k \in 0..(NumNodes + 1), ss \in SessionSigsParams,
                code \in Codes}

\* a claimKeyId that only tests readiness
claimKeyIdCheckReadyOnly(p, isReady) ==
    IF ~isReady THEN "LitNodeClientNotReady" ELSE ""

\* claimKeyId, lines 1844-1861: readiness, then the auth method type
claimKeyIdCheck(p, isReady) ==
    IF ~isReady THEN "LitNodeClientNotReady"
    ELSE IF p.webAuthn THEN "LitNodeClientNotReady" ELSE ""

\* the checks an operation runs before it builds any request; "" when they pass
RECURSIVE Validate(_, _, _)
Validate(op, p, isReady) ==
    CASE op = "executeJs" ->
            IF ~isReady THEN "LitNodeClientNotReady"
            ELSE IF ~p.shapeOk THEN "InvalidParamType" ELSE ""
      [] op = "pkpSign" ->
            IF ~p.shapeOk THEN "ParamNull"
            ELSE IF ~IsSome(p.sessionSigs) /\ ~p.authMethods THEN "ParamNull" ELSE ""
      [] op \in {"encrypt", "decrypt", "getSignedToken"} ->
            IF ~isReady THEN "LitNodeClientNotReady"
            ELSE IF ~p.shapeOk THEN "InvalidArgumentException" ELSE ""
      [] op = "claimKeyId" -> claimKeyIdCheck(p, isReady)
      [] op = "signSessionKey" ->
            IF ~isReady THEN "LitNodeClientNotReady" ELSE ""
      [] OTHER ->
            IF p.targetNodeRange = 0 THEN "InvalidParamType"
            ELSE Validate("executeJs", p, isReady)

\* _getSessionSigByUrl: the entry of the map for the url, if there is one
getSessionSigByUrl(sessionSigs, url) ==
    IF IsSome(sessionSigs)
    THEN IF url \in Get(sessionSigs)
         THEN Some([kind |-> "sessionSig", url |-> url])
         ELSE None
    ELSE None

\* const authSigToSend = sessionSigs ? sessionSigs[url] : authSig
authSigToSend(p, url) ==
    IF IsSome(p.sessionSigs) THEN getSessionSigByUrl(p.sessionSigs, url)
    ELSE IF p.authSig THEN Some([kind |-> "authSig", url |-> 0])
    ELSE None

\* the callback an operation hands to _getNodePromises: the authSig field of
\* the request body it builds for the url, or the error it throws
builder(op, p, url) ==
    CASE op \in {"executeJs", "pkpSign"} ->
            IF IsSome(getSessionSigByUrl(p.sessionSigs, url))
            THEN [err |-> "", authSig |-> getSessionSigByUrl(p.sessionSigs, url)]
            ELSE [err |-> "WalletSignatureNotFound", authSig |-> None]
      [] op = "getSignedToken" ->
            [err |-> "", authSig |-> authSigToSend(p, url)]
      [] op = "decrypt" ->
            IF IsSome(authSigToSend(p, url))
            THEN [err |-> "", authSig |-> authSigToSend(p, url)]
            ELSE [err |-> "InvalidArgumentException", authSig |-> None]
      [] OTHER -> [err |-> "", authSig |-> None]

\* only executeJs passes an async callback: what it throws rejects that node's
\* promise; what a plain callback throws leaves _getNodePromises at once
AsyncBuilder(op) == op = "executeJs"

NoPromises == [reqs |-> <<>>, rejected |-> {}, thrown |-> ""]

\* _getNodePromises: the callback is run for each url in turn, and each
\* request is on its way as soon as its promise is made
RECURSIVE getNodePromises(_, _, _, _)
getNodePromises(op, p, urls, acc) ==
    IF urls = <<>> THEN acc
    ELSE LET url == Head(urls)
             b == builder(op, p, url)
         IN  IF b.err = ""
             THEN getNodePromises(op, p, Tail(urls),
                      [acc EXCEPT !.reqs = Append(@, [url |-> url, authSig |-> b.authSig])])
             ELSE IF AsyncBuilder(op)
             THEN getNodePromises(op, p, Tail(urls),
                      [acc EXCEPT !.rejected = @ \cup {url}])
             ELSE [acc EXCEPT !.thrown = b.err]

\* the loop of the wrapper of runOnTargetedNodes, lines 792-827: the session
\* sig is looked up, but the request is sent with data: params
RECURSIVE targetedPromises(_, _, _)
targetedPromises(p, sel, acc) ==
    IF sel = <<>> THEN acc
    ELSE LET url == bootstrapUrls[Head(sel) + 1]
         IN  IF IsSome(getSessionSigByUrl(p.sessionSigs, url))
             THEN targetedPromises(p, Tail(sel),
                      [acc EXCEPT !.reqs = Append(@, [url |-> url, authSig |-> None])])
             ELSE [acc EXCEPT !.thrown = "WalletSignatureNotFound"]

\* a variant with minNodeCount as the quorum of every fan-out to all nodes
ThresholdMinNodeCount(l, nodes) ==
    CASE l.phase = "targeted" -> l.p.targetNodeRange
      [] OTHER -> MinNodeCount

\* the quorum an operation passes to _handleNodePromises
Threshold(l, nodes) ==
    CASE l.phase = "targeted" -> l.p.targetNodeRange
      [] l.op \in {"getSignedToken", "decrypt"} -> MinNodeCount
      [] OTHER -> Len(nodes)

LastIdle ==
    [pc |-> "idle", op |-> "", p |-> NoParams, ready |-> FALSE, phase |-> "",
     attempt |-> 0, batch |-> {}, rejected |-> {}, sent |-> <<>>,
     pendingErr |-> "", err |-> "", sel |-> <<>>, nodeCounter |-> 0,
     oks |-> <<>>, returned |-> "", io |-> None, requestId |-> None]

\* the id executeWithRetry hands to a run of the wrapper, and reports with
\* the outcome of that run
wrapperRequestId(l) == <<l.phase, l.attempt>>

\* a transport that gives every node an id of its own
requestIdPerUrl(id, url) == Append(id, url)

\* #generatePromise, lines 520-530 (and line 823): the id of the wrapper is
\* the requestId of the request to each url
requestIdSent(id, url) == id

\* one run of the wrapper: the batch is built and sent, or the builder throws
StartAttempt(l, nodes) ==
    LET r == IF l.phase = "targeted"
             THEN targetedPromises(l.p, l.sel, NoPromises)
             ELSE getNodePromises(IF l.phase = "ipfs" THEN "executeJs" ELSE l.op,
                                  l.p, nodes, NoPromises)
        tagged == [i \in DOMAIN r.reqs |->
                      [op |-> l.op, phase |-> l.phase, attempt |-> l.attempt,
                       url |-> r.reqs[i].url, authSig |-> r.reqs[i].authSig,
                       requestId |-> requestIdSent(wrapperRequestId(l),
                                                   r.reqs[i].url)]]
        l1 == [l EXCEPT !.sent = @ \o tagged,
                        !.batch = {r.reqs[i].url : i \in DOMAIN r.reqs},
                        !.rejected = r.rejected]
    IN  IF r.thrown # ""
        THEN [l1 EXCEPT !.pc = "failed", !.pendingErr = r.thrown]
        ELSE [l1 EXCEPT !.pc = "wait"]

\* a variant in which every operation that passes its checks asks the
\* session key store for a key
callsGetSessionKeyAlways(op, p, e) == e = ""

\* signSessionKey, lines 1255-1257: params.sessionKey ?? this.getSessionKey();
\* no other request operation reads or writes the key store
callsGetSessionKey(op, p, e) ==
    op = "signSessionKey" /\ e = "" /\ ~p.sessionKey

\* the operation is called: its checks, then (signSessionKey) the session
\* key, then the first run of its wrapper
Call(op, p) ==
    /\ NoCallInProgress
    /\ LET l0 == [LastIdle EXCEPT !.op = op, !.p = p, !.ready = ready,
                                  !.attempt = 1,
                                  !.phase = IF op = "runOnTargetedNodes"
                                            THEN "ipfs" ELSE "main"]
           e == Validate(op, p, ready)
           storedSessionKey == getStorageItem(sessionKeySlot)
           generates == /\ callsGetSessionKey(op, p, e)
                        /\ sessionKeyMissing(storedSessionKey)
           unparsable == /\ callsGetSessionKey(op, p, e)
                         /\ ~generates
                         /\ ~IsSome(JSONparse(Get(storedSessionKey)))
       IN  /\ generates => nextKey <= MaxKeys
           /\ \E setOk \in IF generates THEN BOOLEAN ELSE {TRUE} :
                 sessionKeySlot' =
                    IF generates /\ setOk
                    THEN Some(JSONstringify(SessionKeyPair(nextKey)))
                    ELSE sessionKeySlot
           /\ nextKey' = IF generates THEN nextKey + 1 ELSE nextKey
           /\ last' = IF e # "" THEN [l0 EXCEPT !.pc = "done", !.err = e]
                      ELSE IF unparsable
                      THEN [l0 EXCEPT !.pc = "done", !.err = "SyntaxError"]
                      ELSE IF op = "encrypt" THEN [l0 EXCEPT !.pc = "done"]
                      ELSE StartAttempt(l0, connectedNodes)
    /\ UNCHANGED <<connVars, defaultAuthCallback, storageUp, walletSlot, gs>>

\* ethers.utils.splitSignature(`0x${r.signature}`) of the answer of node n,
\* lines 1907-1914
splitSignature(n) == [r |-> <<"r", n>>, s |-> <<"s", n>>, v |-> <<"v", n>>]

\* claimKeyId, lines 1904-1965: the mint callbacks invoked for the answers of
\* the nodes of ok, each with the callback chosen and the signatures passed
mintCalls(p, ok) ==
    <<[callback |-> IF p.mintCallback /\ p.signer
                    THEN "params.mintCallback" ELSE "defaultMintClaimCallback",
       signatures |-> {splitSignature(n) : n \in ok}]>>

\* the batch succeeded: the shares are combined, or (getIpfsId) the selection
\* loop starts
Succeed(l, ok) ==
    IF l.phase = "ipfs"
    THEN [l EXCEPT !.pc = "select", !.sel = <<>>, !.nodeCounter = 0]
    ELSE IF l.op = "claimKeyId"
    THEN [l EXCEPT !.pc = "done", !.returned = "success",
                   !.io = Some(mintCalls(l.p, ok))]
    ELSE IF l.op \in {"executeJs", "pkpSign", "signSessionKey"}
            /\ Cardinality(ok) < MinNodeCount
    THEN [l EXCEPT !.pc = "done", !.err = "UnknownError"]
    ELSE IF l.phase = "targeted"
    THEN [l EXCEPT !.pc = "done", !.returned = "success",
                   !.requestId = Some(wrapperRequestId(l))]
    ELSE [l EXCEPT !.pc = "done", !.returned = "success"]

\* _handleNodePromises: the nodes of ok answer, the others fail
NodesRespond ==
    /\ last.pc = "wait"
    /\ \E ok \in SUBSET last.batch :
          LET l == [last EXCEPT !.oks = Append(@, ok)]
          IN  last' = IF Cardinality(ok) >= Threshold(last, connectedNodes)
                      THEN Succeed(l, ok)
                      ELSE [l EXCEPT !.pc = "failed",
                                     !.pendingErr = IF last.rejected # {}
                                                    THEN "WalletSignatureNotFound"
                                                    ELSE "NodeError"]
    /\ UNCHANGED <<connVars, defaultAuthCallback, storageUp, storeVars, gs>>

\* what the operation does with the rejected batch executeWithRetry hands
\* back: _throwNodeError (1379, 1617, 1803, 2099, 2264), the UnknownError of
\* claimKeyId (1966-1972), or the plain return of runOnTargetedNodes (839-847)
FinalFailure(l) ==
    IF l.pendingErr # "NodeError"
    THEN [l EXCEPT !.pc = "done", !.err = l.pendingErr]
    ELSE IF l.op = "claimKeyId"
    THEN [l EXCEPT !.pc = "done", !.err = "UnknownError",
                   !.requestId = Some(wrapperRequestId(l))]
    ELSE IF l.phase = "targeted"
    THEN [l EXCEPT !.pc = "done", !.returned = "rejected",
                   !.requestId = Some(wrapperRequestId(l))]
    ELSE [l EXCEPT !.pc = "done", !.err = "NodeError",
                   !.requestId = Some(wrapperRequestId(l))]

\* executeWithRetry: a failed run of the wrapper is followed by another one
\* until retryTolerance runs are used up; then the error surfaces
RetryOrFail ==
    /\ last.pc = "failed"
    /\ last' = IF last.attempt < RetryTolerance
               THEN StartAttempt([last EXCEPT !.attempt = @ + 1, !.pendingErr = ""],
                                 connectedNodes)
               ELSE FinalFailure(last)
    /\ UNCHANGED <<connVars, defaultAuthCallback, storageUp, storeVars, gs>>

\* a variant that pushes every index
selectTurnNoUnique(randomSelectedNodeIndexes, nodeIndex) ==
    Append(randomSelectedNodeIndexes, nodeIndex)

\* lines 774-781: the index is pushed when it is new and below
\* bootstrapUrls.length
selectTurn(randomSelectedNodeIndexes, nodeIndex) ==
    IF nodeIndex \notin Range(randomSelectedNodeIndexes)
       /\ nodeIndex < Len(bootstrapUrls)
    THEN Append(randomSelectedNodeIndexes, nodeIndex)
    ELSE randomSelectedNodeIndexes

\* one turn of the selection loop of runOnTargetedNodes, lines 763-783
SelectStep ==
    /\ last.pc = "select"
    /\ Len(last.sel) < last.p.targetNodeRange
    /\ last.nodeCounter < MaxCounter
    /\ LET nodeIndex == hashAsNumber(last.nodeCounter, getIpfsId(last.p.code))
                          % Len(bootstrapUrls)
       IN  last' = [last EXCEPT !.sel = selectTurn(@, nodeIndex),
                               !.nodeCounter = @ + 1]
    /\ UNCHANGED <<connVars, defaultAuthCallback, storageUp, storeVars, gs>>

\* the loop is left: the wrapper of runOnTargetedNodes runs for the first time
TargetedDispatch ==
    /\ last.pc = "select"
    /\ Len(last.sel) >= last.p.targetNodeRange
    /\ last' = StartAttempt([last EXCEPT !.phase = "targeted", !.attempt = 1,
                                         !.oks = <<>>],
                            connectedNodes)
    /\ UNCHANGED <<connVars, defaultAuthCallback, storageUp, storeVars, gs>>

Connect ==
    /\ NoCallInProgress
    /\ \/ ConnectStart
       \/ \E n \in Nodes : Handshake(n)
       \/ ConnectDone

\* ------------------------------------------------- the session specification
InitConn ==
    /\ connState = "Unconnected"
    /\ connectedNodes = <<>>
    /\ latestBlockhash = None

InitSession ==
    /\ InitConn
    /\ defaultAuthCallback \in BOOLEAN
    /\ storageUp \in BOOLEAN
    /\ walletSlot \in IF storageUp
                      THEN {None, Some(GarbageText)}
                           \cup {Some(JSONstringify(a)) : a \in StoredAuthSigs}
                      ELSE {None}
    /\ \E k \in {0, 1, 2} :
          /\ k > 0 => storageUp
          /\ sessionKeySlot = IF k = 1 THEN Some(JSONstringify(SessionKeyPair(1)))
                              ELSE IF k = 2 THEN Some(GarbageText)
                              ELSE None
          /\ nextKey = IF k = 1 THEN 2 ELSE 1
    /\ gs = [c \in CallIds |-> GsIdle]
    /\ last = LastIdle

GetSessionSigs(c) ==
    /\ last.pc \in {"idle", "done"}
    /\ \/ \E p \in GetSessionSigsProps : GsStartWithKey(c, p)
       \/ \E p \in GetSessionSigsProps : GsStartStoredKey(c, p)
       \/ \E p \in GetSessionSigsProps : GsStartNewKey(c, p)
       \/ \E p \in GetSessionSigsProps : GsLitActionRejects(c, p)
       \/ GsWalletCallbackReturns(c)
       \/ GsResignCallbackReturns(c)
       \/ GsCallbackThrows(c)

NextSession ==
    \/ Connect
    \/ GetSessionSigs(1)

SpecSession == InitSession /\ [][NextSession]_vars

\* ------------------------------------------------------- encrypt / decrypt
\* strings are sequences of characters; a hex digest is one over 0-9a-f
HexChars == {"0", "a"}
HexDigests == UNION {[1..n -> HexChars] : n \in 1..MaxDigestLen}

\* the payloads and the condition sets of the calls, and their SHA-256 digests
\* in lowercase hex (lines 907-932, 2164-2178); distinct inputs have distinct
\* digests
DataSet == {"secret", "other"}
CondSet == {"condsA", "condsB", "condsC"}
NoConditions == "none"

sha256Hex(x) ==
    CASE x = "secret" -> <<"a", "a">>
      [] x = "other"  -> <<"a">>
      [] x = "condsA" -> <<"0">>
      [] x = "condsB" -> <<"0", "a">>
      [] OTHER        -> <<"a", "0">>

\* getHashedAccessControlConditions: undefined when no conditions are given
getHashedAccessControlConditions(conds) ==
    IF conds = NoConditions THEN None ELSE Some(sha256Hex(conds))

\* variants of the identity parameter
identityParamDataOnly(hashOfConditionsStr, hashOfPrivateDataStr) ==
    <<"lit-accesscontrolcondition://">> \o hashOfPrivateDataStr

identityParamNoSeparator(hashOfConditionsStr, hashOfPrivateDataStr) ==
    <<"lit-accesscontrolcondition://">> \o hashOfConditionsStr \o hashOfPrivateDataStr

\* #getIdentityParamForEncryption, lines 311-318: the resource key of
\* LitAccessControlConditionResource(`${hashOfConditionsStr}/${hashOfPrivateDataStr}`)
getIdentityParamForEncryption(hashOfConditionsStr, hashOfPrivateDataStr) ==
    <<"lit-accesscontrolcondition://">>
        \o hashOfConditionsStr \o <<"/">> \o hashOfPrivateDataStr

\* identity-based encryption under the subnet key: only signature shares over
\* the same identity open the ciphertext
blsEncrypt(dataToEncrypt, identityParam) ==
    [identity |-> identityParam, payload |-> dataToEncrypt]

verifyAndDecryptWithSignatureShares(identityParam, ciphertext, quorum) ==
    IF quorum /\ ciphertext.identity = identityParam
    THEN Some(ciphertext.payload)
    ELSE None

\* encrypt, lines 866-948
EncryptCall(dataToEncrypt, conds) ==
    /\ NoCallInProgress
    /\ LET l0 == [LastIdle EXCEPT !.op = "encrypt", !.ready = ready, !.pc = "done"]
           hashOfConditions == getHashedAccessControlConditions(conds)
           hashOfPrivateDataStr == sha256Hex(dataToEncrypt)
       IN  last' =
              IF ~ready THEN [l0 EXCEPT !.err = "LitNodeClientNotReady"]
              ELSE IF ~IsSome(hashOfConditions)
              THEN [l0 EXCEPT !.err = "InvalidArgumentException"]
              ELSE LET identityParam ==
                          getIdentityParamForEncryption(Get(hashOfConditions),
                                                        hashOfPrivateDataStr)
                   IN  [l0 EXCEPT !.returned = "success",
                                  !.io = Some([dataToEncrypt |-> dataToEncrypt,
                                               conds |-> conds,
                                               identityParam |-> identityParam,
                                               ciphertext |-> blsEncrypt(dataToEncrypt,
                                                                         identityParam),
                                               dataToEncryptHash |-> hashOfPrivateDataStr])]
    /\ UNCHANGED <<connVars, defaultAuthCallback, storageUp, storeVars, gs>>

\* decrypt, lines 2124-2282, called with the ciphertext of the encrypt call
\* before it, a dataToEncryptHash and a condition set; quorum tells whether
\* enough nodes answered with valid shares
DecryptCall(conds, dataToEncryptHash, quorum) ==
    /\ last.pc = "done" /\ last.op = "encrypt" /\ IsSome(last.io)
    /\ LET enc == Get(last.io)
           l0 == [LastIdle EXCEPT !.op = "decrypt", !.ready = ready, !.pc = "done"]
           hashOfConditions == getHashedAccessControlConditions(conds)
       IN  last' =
              IF ~ready THEN [l0 EXCEPT !.err = "LitNodeClientNotReady"]
              ELSE IF ~IsSome(hashOfConditions)
              THEN [l0 EXCEPT !.err = "InvalidArgumentException"]
              ELSE LET identityParam ==
                          getIdentityParamForEncryption(Get(hashOfConditions),
                                                        dataToEncryptHash)
                       decryptedData ==
                          verifyAndDecryptWithSignatureShares(identityParam,
                                                              enc.ciphertext, quorum)
                   IN  [l0 EXCEPT !.err = IF ~quorum THEN "NodeError"
                                          ELSE IF ~IsSome(decryptedData)
                                          THEN "DecryptionError" ELSE "",
                                  !.returned = IF IsSome(decryptedData)
                                               THEN "success" ELSE "",
                                  !.io = Some([enc |-> enc,
                                               conds |-> conds,
                                               dataToEncryptHash |-> dataToEncryptHash,
                                               identityParam |-> identityParam,
                                               decryptedData |-> decryptedData])]
    /\ UNCHANGED <<connVars, defaultAuthCallback, storageUp, storeVars, gs>>

NextCrypt ==
    \/ Connect
    \/ \E d \in DataSet, c \in CondSet \cup {NoConditions} : EncryptCall(d, c)
    \/ \E c \in CondSet \cup {NoConditions}, h \in HexDigests, q \in BOOLEAN :
          DecryptCall(c, h, q)

\* ----------------------------------------------- the request specification
InitOps ==
    /\ InitConn
    /\ defaultAuthCallback = FALSE
    /\ storageUp = TRUE
    /\ walletSlot = None
    /\ sessionKeySlot = None
    /\ nextKey = 1
    /\ gs = [c \in CallIds |-> GsIdle]
    /\ last = LastIdle

NextOps ==
    \/ Connect
    \/ \E op \in Ops : \E p \in ParamsOf(op) : Call(op, p)
    \/ NodesRespond
    \/ RetryOrFail
    \/ SelectStep
    \/ TargetedDispatch

SpecOps == InitOps /\ [][NextOps]_vars

\* the selection loop is synchronous code: once entered, its turns and the
\* dispatch that follows it are taken without waiting for anything
SpecOpsLive ==
    SpecOps /\ WF_vars(SelectStep) /\ WF_vars(TargetedDispatch)

SpecCrypt == InitOps /\ [][NextCrypt]_vars

\* ------------------------------------ the response handling specification
\* the answers executeJs hands to its response handling, lines 1625-1704:
\* res.values, one NodeShare per connected node (the quorum of line 1596 is
\* this.connectedNodes.size)
MaxShares == 3

HelloLogs == "hello world\n"

\* what a node answers: an action that only logs, one that returns a
\* response, one that signs, one that claims a key
NodeShares ==
    [success : BOOLEAN, signedData : {{}}, claimData : {{}},
     response : {"", "1", "a"}, logs : {"", HelloLogs}]
    \cup [success : {TRUE}, signedData : {{"sig1"}}, claimData : {{}},
          response : {"1", "a"}, logs : {HelloLogs}]
    \cup [success : {TRUE}, signedData : {{}}, claimData : {{"claim1"}},
          response : {""}, logs : {""}]

ResponseDataSet ==
    UNION {[1..n -> NodeShares] : n \in 1..MaxShares}

\* params.responseStrategy: absent, or {strategy, customFilter}
ResponseStrategies ==
    {None} \cup {Some([strategy |-> s, customFilter |-> ""]) :
                    s \in {"leastCommon", "mostCommon"}}
           \cup {Some([strategy |-> "custom", customFilter |-> v]) :
                    v \in {"1", "a"}}

\* the canonical (lexicographic) order of the values each field takes
BooleanOrder == <<FALSE, TRUE>>
DataOrder == <<{}, {"claim1"}, {"sig1"}>>
StringOrder == <<"", "1", "a", HelloLogs>>

CountOf(xs, v) == Cardinality({i \in DOMAIN xs : xs[i] = v})

MostFrequent(xs) ==
    {v \in Range(xs) : \A w \in Range(xs) : CountOf(xs, w) <= CountOf(xs, v)}

FirstIn(order, candidates) ==
    order[CHOOSE i \in DOMAIN order :
             /\ order[i] \in candidates
             /\ \A j \in DOMAIN order : order[j] \in candidates => i <= j]

\* "most common" with the lexicographic tie-break
majority(xs, order) == FirstIn(order, MostFrequent(xs))

\* findMostCommonResponse (helper outside the file): the most common value
\* of every field of the node answers
findMostCommonResponse(responseData) ==
    [success    |-> majority([i \in DOMAIN responseData |-> responseData[i].success],
                             BooleanOrder),
     signedData |-> majority([i \in DOMAIN responseData |-> responseData[i].signedData],
                             DataOrder),
     claimData  |-> majority([i \in DOMAIN responseData |-> responseData[i].claimData],
                             DataOrder),
     response   |-> majority([i \in DOMAIN responseData |-> responseData[i].response],
                             StringOrder),
     logs       |-> majority([i \in DOMAIN responseData |-> responseData[i].logs],
                             StringOrder)]

\* a strategy that answers with the least frequent response string
strategyLeastFrequent(responseData, strategy) ==
    LET responses == [i \in DOMAIN responseData |-> responseData[i].response]
    IN  FirstIn(StringOrder,
                {v \in Range(responses) :
                    \A w \in Range(responses) :
                        CountOf(responses, v) <= CountOf(responses, w)})

\* processLitActionResponseStrategy (helper outside the file): the response
\* string most nodes gave; the strategy decides among tied strings only
processLitActionResponseStrategy(responseData, strategy) ==
    LET responses == [i \in DOMAIN responseData |-> responseData[i].response]
        tied == MostFrequent(responses)
    IN  IF strategy.strategy = "custom" /\ strategy.customFilter \in tied
        THEN strategy.customFilter
        ELSE FirstIn(StringOrder, tied)

\* parseAsJsonOrString (helper outside the file): JSON.parse, or the string
\* itself when it is not JSON
JsonTexts == {"1"}

AsString(s) == [type |-> "string", text |-> s]

parseAsJsonOrString(s) ==
    IF s \in JsonTexts THEN [type |-> "number", text |-> s] ELSE AsString(s)

\* getSignatures / getClaims over the shares of all answers (lines 1663-1689)
getSignatures(responseData) ==
    UNION {responseData[i].signedData : i \in DOMAIN responseData}

getClaims(responseData) ==
    UNION {responseData[i].claimData : i \in DOMAIN responseData}

\* a response handling that combines shares before looking at the answer
executeJsAlwaysCombines(responseData, responseStrategy) ==
    LET mostCommonResponse == findMostCommonResponse(responseData)
    IN  [branch |-> "combined", combinerCalled |-> TRUE,
         selected |-> mostCommonResponse.response,
         success |-> None,
         response |-> parseAsJsonOrString(mostCommonResponse.response),
         logs |-> mostCommonResponse.logs,
         signatures |-> Some(getSignatures(responseData)),
         claims |-> getClaims(responseData)]

\* executeJs, lines 1625-1704: the handling of the successful answers
executeJsHandleResponse(responseData, responseStrategy) ==
    LET found == findMostCommonResponse(responseData)
        responseFromStrategy ==
            processLitActionResponseStrategy(
                responseData,
                IF IsSome(responseStrategy) THEN Get(responseStrategy)
                ELSE [strategy |-> "leastCommon", customFilter |-> ""])
        mostCommonResponse == [found EXCEPT !.response = responseFromStrategy]
        isSuccess == mostCommonResponse.success
        hasSignedData == mostCommonResponse.signedData # {}
        hasClaimData == mostCommonResponse.claimData # {}
    IN  IF isSuccess /\ ~hasSignedData /\ ~hasClaimData
        THEN [branch |-> "direct", combinerCalled |-> FALSE,
              selected |-> responseFromStrategy,
              success |-> Some(mostCommonResponse.success),
              response |-> AsString(mostCommonResponse.response),
              logs |-> mostCommonResponse.logs,
              signatures |-> None, claims |-> {}]
        ELSE IF ~hasSignedData /\ ~hasClaimData
        THEN [branch |-> "noSigning", combinerCalled |-> FALSE,
              selected |-> responseFromStrategy,
              success |-> None,
              response |-> AsString(mostCommonResponse.response),
              logs |-> mostCommonResponse.logs,
              signatures |-> None, claims |-> {}]
        ELSE [branch |-> "combined", combinerCalled |-> TRUE,
              selected |-> responseFromStrategy,
              success |-> None,
              response |-> parseAsJsonOrString(mostCommonResponse.response),
              logs |-> majority([i \in DOMAIN responseData |-> responseData[i].logs],
                                StringOrder),
              signatures |-> Some(getSignatures(responseData)),
              claims |-> getClaims(responseData)]

\* executeJs answered by every connected node with responseData
ExecuteJsResponds(responseData, responseStrategy) ==
    /\ last.pc = "idle"
    /\ last' = [LastIdle EXCEPT
                  !.op = "executeJs", !.pc = "done", !.returned = "success",
                  !.io = Some([responseData |-> responseData,
                               responseStrategy |-> responseStrategy,
                               mostCommonResponse |-> findMostCommonResponse(responseData),
                               result |-> executeJsHandleResponse(responseData,
                                                                  responseStrategy)])]
    /\ UNCHANGED <<connVars, defaultAuthCallback, storageUp, storeVars, gs>>

\* the answers signSessionKey hands to its share validation, line 1381:
\* signatureShare (absent, or an object whose ProofOfPossession may be
\* empty), shareIndex (a number) and dataSigned (a string, possibly empty);
\* dataSigned stands for the required string fields, all tested alike
BlsShares ==
    [signatureShare : {None} \cup {Some([ProofOfPossession |-> s]) : s \in {"", "pop"}},
     shareIndex : {0, 1},
     dataSigned : {"", "d"}]

BlsResponseDataSet ==
    UNION {[1..n -> BlsShares] : n \in 1..MaxShares}

\* !data[key] || data[key] === '' for each of requiredFields, lines 1417-1437
lacksRequiredField(data) ==
    \/ ~IsSome(data.signatureShare)
    \/ data.shareIndex = 0
    \/ data.dataSigned = ""

\* the map and filter of lines 1415-1448: null for an answer that lacks a
\* required field, an Error for one whose signatureShare has no
\* ProofOfPossession
validateSignedData(responseData) ==
    LET passes == SelectSeq(responseData, LAMBDA d : ~lacksRequiredField(d))
    IN  IF \E i \in DOMAIN passes :
              Get(passes[i].signatureShare).ProofOfPossession = ""
        THEN [err |-> "Error: ProofOfPossession is missing",
              validatedSignedDataList |-> <<>>]
        ELSE [err |-> "", validatedSignedDataList |-> passes]

\* signSessionKey, lines 1381-1519: the handling of the successful answers
signSessionKeyHandleResponse(responseData) ==
    LET v == validateSignedData(responseData)
    IN  IF Len(responseData) <= 0
        THEN [err |-> "Error: signedDataList is empty", combined |-> None]
        ELSE IF v.err # ""
        THEN [err |-> v.err, combined |-> None]
        ELSE IF Len(v.validatedSignedDataList) < MinNodeCount
        THEN [err |-> "Error: not enough nodes signed the session key",
              combined |-> None]
        ELSE [err |-> "", combined |-> Some(v.validatedSignedDataList)]

\* signSessionKey answered by every connected node with responseData
SignSessionKeyResponds(responseData) ==
    /\ last.pc = "idle"
    /\ LET r == signSessionKeyHandleResponse(responseData)
       IN  last' = [LastIdle EXCEPT
                      !.op = "signSessionKey", !.pc = "done",
                      !.err = r.err,
                      !.returned = IF r.err = "" THEN "success" ELSE "",
                      !.io = Some([responseData |-> responseData, result |-> r])]
    /\ UNCHANGED <<connVars, defaultAuthCallback, storageUp, storeVars, gs>>

\* the signature shares getSignedToken hands to #combineSharesAndGetJWT
\* (line 2109): one share per answering node, carrying that node's
\* shareIndex, in the order the answers arrived
JwtOrder == <<"jwtA", "jwtB">>

NodeBlsSigningShares ==
    [shareIndex : 1..MaxShares, unsignedJwt : Range(JwtOrder)]

signatureShareOf(share) == <<"share", share.shareIndex>>

SignatureSharesSet ==
    {s \in UNION {[1..n -> NodeBlsSigningShares] : n \in 1..MaxShares} :
        \A i, j \in DOMAIN s : i # j => s[i].shareIndex # s[j].shareIndex}

\* a sort that leaves the array as it arrived
sortKeepsArrival(signatureShares) == signatureShares

\* signatureShares.sort((a, b) => a.shareIndex - b.shareIndex), line 480: the
\* (stable) insertion of each share after the shares not above it
RECURSIVE sortByShareIndex(_)
sortByShareIndex(signatureShares) ==
    IF signatureShares = <<>> THEN <<>>
    ELSE LET n == Len(signatureShares)
             x == signatureShares[n]
             rest == sortByShareIndex(SubSeq(signatureShares, 1, n - 1))
             below == SelectSeq(rest, LAMBDA s : s.shareIndex <= x.shareIndex)
             above == SelectSeq(rest, LAMBDA s : s.shareIndex > x.shareIndex)
         IN  below \o <<x>> \o above

\* combineSignatureShares (BLS SDK): a signature determined by the list of
\* shares in the order given
combineSignatureShares(shares) == [combinedFrom |-> shares]

\* uint8arrayToString(uint8arrayFromString(signature, 'base16'), 'base64urlpad')
base64urlpad(signature) == [base64urlpad |-> signature]

\* #combineSharesAndGetJWT, lines 462-501; sorted is the caller's array as
\* the in-place sort leaves it
combineSharesAndGetJWT(signatureShares) ==
    LET sorted == sortByShareIndex(signatureShares)
        passed == [i \in DOMAIN sorted |-> signatureShareOf(sorted[i])]
        signature == combineSignatureShares(passed)
        unsignedJwt == majority([i \in DOMAIN sorted |-> sorted[i].unsignedJwt],
                                JwtOrder)
    IN  [sorted |-> sorted, passed |-> passed,
         finalJwt |-> <<unsignedJwt, ".", base64urlpad(signature)>>]

\* the shares arrive in some order and are combined, and the same array is
\* combined once more
CombineShares(signatureShares) ==
    /\ last.pc = "idle"
    /\ LET first == combineSharesAndGetJWT(signatureShares)
           again == combineSharesAndGetJWT(first.sorted)
       IN  last' = [LastIdle EXCEPT
                      !.op = "getSignedToken", !.pc = "done",
                      !.returned = "success",
                      !.io = Some([signatureShares |-> signatureShares,
                                   passed |-> first.passed,
                                   finalJwt |-> first.finalJwt,
                                   again |-> again.finalJwt])]
    /\ UNCHANGED <<connVars, defaultAuthCallback, storageUp, storeVars, gs>>

NextHandle ==
    \/ \E responseData \in ResponseDataSet, s \in ResponseStrategies :
          ExecuteJsResponds(responseData, s)
    \/ \E responseData \in BlsResponseDataSet :
          SignSessionKeyResponds(responseData)
    \/ \E signatureShares \in SignatureSharesSet :
          CombineShares(signatureShares)

SpecHandle == InitOps /\ [][NextHandle]_vars

\* ------------------------------------------- the AuthSig specification
\* the signers handed to generateAuthSig: two wallets, and an object without
\* a signMessage method
Wallets == {"walletA", "walletB"}

Signers == Wallets \cup {"noSignMessage"}

\* signer.getAddress(): the account of the wallet, in lower case
addressOfSigner(signer) == IF signer = "walletA" THEN "0xaa" ELSE "0xbb"

\* ethers.utils.getAddress: the checksummed form of an address, None when it
\* throws on text that is no address
getAddress(address) ==
    CASE address \in {"0xaa", "0xAa"} -> Some("0xAa")
      [] address \in {"0xbb", "0xBb"} -> Some("0xBb")
      [] OTHER -> None

\* the optional address argument
AddressArgs == {None} \cup {Some(a) : a \in {"0xaa", "0xAa", "0xbb", "0xBb", "nobody"}}

AlgoArgs == {None, Some("ed25519")}

ToSignSet == {<<"siwe", n>> : n \in 1..3}

\* signer.signMessage(toSign): a personal-sign signature of the wallet
signMessage(signer, toSign) == [signedBy |-> signer, over |-> toSign]

\* ethers.utils.verifyMessage: the checksummed address the signature of the
\* message recovers to
verifyMessage(message, sig) ==
    IF sig.over = message THEN Get(getAddress(addressOfSigner(sig.signedBy)))
    ELSE "0x00"

\* generateAuthSig, generate-auth-sig.ts lines 17-62
generateAuthSig(signer, toSign, address, algo) ==
    IF signer \notin Wallets
    THEN [err |-> "Error: signer does not have a signMessage method",
          authSig |-> None]
    ELSE LET signature == signMessage(signer, toSign)
             given == IF IsSome(address) THEN Get(address)
                      ELSE addressOfSigner(signer)
         IN  IF ~IsSome(getAddress(given))
             THEN [err |-> "Error: invalid address", authSig |-> None]
             ELSE [err |-> "",
                   authSig |-> Some([sig |-> signature,
                                     derivedVia |-> "web3.eth.personal.sign",
                                     signedMessage |-> toSign,
                                     address |-> Get(getAddress(given)),
                                     algo |-> algo])]

GenerateAuthSig(signer, toSign, address, algo) ==
    /\ last.pc = "idle"
    /\ LET r == generateAuthSig(signer, toSign, address, algo)
       IN  last' = [LastIdle EXCEPT
                      !.op = "generateAuthSig", !.pc = "done", !.err = r.err,
                      !.returned = IF r.err = "" THEN "success" ELSE "",
                      !.io = Some([signer |-> signer, toSign |-> toSign,
                                   address |-> address, authSig |-> r.authSig])]
    /\ UNCHANGED <<connVars, defaultAuthCallback, storageUp, storeVars, gs>>

\* createCapacityDelegationAuthSig, lines 540-588, on a connected client: the
\* SIWE message for the owner's address and the latest blockhash is signed
\* by params.dAppOwnerWallet, no address being passed
CreateCapacityDelegationAuthSig(dAppOwnerWallet) ==
    /\ last.pc = "idle"
    /\ ready
    /\ LET dAppOwnerWalletAddress ==
              Get(getAddress(addressOfSigner(dAppOwnerWallet)))
           siweMessage == <<"siwe", "lit:capability:delegation",
                            dAppOwnerWalletAddress, latestBlockhash>>
           r == generateAuthSig(dAppOwnerWallet, siweMessage, None, None)
       IN  last' = [LastIdle EXCEPT
                      !.op = "createCapacityDelegationAuthSig", !.pc = "done",
                      !.ready = TRUE, !.err = r.err,
                      !.returned = IF r.err = "" THEN "success" ELSE "",
                      !.io = Some([signer |-> dAppOwnerWallet,
                                   toSign |-> siweMessage,
                                   address |-> None, authSig |-> r.authSig])]
    /\ UNCHANGED <<connVars, defaultAuthCallback, storageUp, storeVars, gs>>

NextAuthSig ==
    \/ Connect
    \/ \E signer \in Signers, toSign \in ToSignSet, address \in AddressArgs,
          algo \in AlgoArgs :
          GenerateAuthSig(signer, toSign, address, algo)
    \/ \E w \in Wallets : CreateCapacityDelegationAuthSig(w)

SpecAuthSig == InitOps /\ [][NextAuthSig]_vars

\* ------------------------------------- two getSessionSigs calls interleaved
\* the session key each of the two calls brings in its params
OwnSessionKey(c) == SessionKeyPair(c - 1)

\* the props of the two calls: an authNeededCallback and the call's own key
ConcurrentProps(c) ==
    {[resourceAbilityRequests |-> r,
      authNeededCallback |-> TRUE, sessionCapabilityObject |-> "covering",
      sessionKey |-> Some(OwnSessionKey(c)), extras |-> "plain"] :
        r \in {<<PkpSignRequest>>, <<PkpSignRequest, ActionExecRequest>>}}

\* one step of call c, made once on a Ready client: its synchronous part up to
\* the first await, or the continuation after one of its awaited callbacks
ConcurrentCall(c) ==
    \/ /\ connState = "Ready"
       /\ gs[c].pc = "idle"
       /\ \E p \in ConcurrentProps(c) : GsStartWithKey(c, p)
    \/ GsWalletCallbackReturns(c)
    \/ GsResignCallbackReturns(c)
    \/ GsCallbackThrows(c)

InitConcurrent ==
    /\ InitConn
    /\ defaultAuthCallback = FALSE
    /\ storageUp \in BOOLEAN
    /\ walletSlot \in IF storageUp
                      THEN {None, Some(JSONstringify(
                                AuthSigOf("0xgood", "0xWallet", getSessionKeyUri(1),
                                          <<encodeAsSiweResource(CapPkpAndAction)>>)))}
                      ELSE {None}
    /\ sessionKeySlot = None
    /\ nextKey = 1
    /\ gs = [c \in CallIds |-> GsIdle]
    /\ last = LastIdle

NextConcurrent ==
    \/ Connect
    \/ \E c \in CallIds : ConcurrentCall(c)

SpecConcurrent == InitConcurrent /\ [][NextConcurrent]_vars

\* ------------------------------------------------------------- PKPWallet
\* pkp-ethers.ts. The wallet is constructed for the public key "pkA"; its
\* pkpWalletProp stays a mutable public field, read again at every call.
PkpPubKeys == {"", "pkA"}

\* computeAddress(publicKey): the checksummed address, None when it throws on
\* a value that is no public key
computeAddress(publicKey) == IF publicKey = "pkA" THEN Some("0xAa") ELSE None

\* this.address, defined read-only by the constructor (line 85)
WalletAddress == Get(computeAddress("pkA"))

WalletProps == [pkpPubKey : PkpPubKeys, controllerAuthSig : BOOLEAN]

\* the fields signTransaction asks the provider for when the transaction
\* lacks them, in the order of lines 129-143
ProviderFields == <<"nonce", "chainId", "gasPrice", "gasLimit">>
ProviderCallOf(field) ==
    CASE field = "nonce" -> "getTransactionCount"
      [] field = "chainId" -> "getNetwork"
      [] field = "gasPrice" -> "getGasPrice"
      [] OTHER -> "estimateGas"

FromArgs == {None} \cup {Some(a) : a \in {"0xaa", "0xAa", "0xbb", "nobody"}}

\* a TransactionRequest: its from, and which of the four fields it lacks
TransactionRequests == [from : FromArgs, lacks : SUBSET Range(ProviderFields)]

\* what litNodeClient.executeJs does with a call: it throws, it answers
\* without a signature of that name, or it answers with one
ExecuteJsOutcomes == {"throws", "noSignature", "signed"}

\* a signTransaction that does not look at transaction.from
fromMismatchIgnored(from, address) == ""

\* lines 150-155: the error of the test of tx.from, "" when it passes
fromMismatch(from, address) ==
    IF ~IsSome(from) THEN ""
    ELSE IF ~IsSome(getAddress(Get(from))) THEN "INVALID_ARGUMENT"
    ELSE IF Get(getAddress(Get(from))) # address THEN "INVALID_ARGUMENT"
    ELSE ""

\* runLitAction, lines 51-71: the executeJs calls it made, its error and the
\* value it returned (None: undefined)
runLitAction(prop, toSign, sigName, outcome) ==
    IF ~prop.controllerAuthSig \/ prop.pkpPubKey = ""
    THEN [err |-> "Error: controllerAuthSig and pkpPubKey are required",
          executeJs |-> <<>>, ret |-> None]
    ELSE LET call == [code |-> "litActionCode",
                      authSig |-> prop.controllerAuthSig,
                      jsParams |-> [toSign |-> toSign,
                                    publicKey |-> prop.pkpPubKey,
                                    sigName |-> sigName]]
         IN  IF outcome = "throws"
             THEN [err |-> "executeJs error", executeJs |-> <<call>>, ret |-> None]
             ELSE IF outcome = "noSignature"
             THEN [err |-> "", executeJs |-> <<call>>, ret |-> None]
             ELSE [err |-> "", executeJs |-> <<call>>,
                   ret |-> Some([signature |-> <<"signature", sigName, toSign>>])]

\* the provider calls of lines 129-143 for the fields the transaction lacks
providerCalls(transaction) ==
    SelectSeq([i \in DOMAIN ProviderFields |-> ProviderCallOf(ProviderFields[i])],
              LAMBDA name : \E f \in transaction.lacks : ProviderCallOf(f) = name)

\* serialize(tx) after the fields were filled in and tx.from deleted, and
\* keccak256 of it
serialize(transaction) == <<"rlp", [nonce |-> TRUE, chainId |-> TRUE,
                                    gasPrice |-> TRUE, gasLimit |-> TRUE]>>
keccak256(bytes) == <<"keccak256", bytes>>

\* signTransaction, lines 125-173; rpcFailsAt is the provider call that
\* throws (0: none does)
signTransaction(prop, transaction, rpcFailsAt, outcome) ==
    LET none == [err |-> "", rpc |-> <<>>, executeJs |-> <<>>, ret |-> None]
        calls == providerCalls(transaction)
    IN  IF ~IsSome(computeAddress(prop.pkpPubKey))
        THEN [none EXCEPT !.err = "INVALID_ARGUMENT"]
        ELSE IF rpcFailsAt \in 1..Len(calls)
        THEN [none EXCEPT !.err = "provider error",
                          !.rpc = SubSeq(calls, 1, rpcFailsAt)]
        ELSE IF fromMismatch(transaction.from, WalletAddress) # ""
        THEN [none EXCEPT !.err = fromMismatch(transaction.from, WalletAddress),
                          !.rpc = calls]
        ELSE LET toSign == keccak256(serialize(transaction))
                 r == runLitAction(prop, toSign, "pkp-eth-sign-tx", outcome)
             IN  IF r.err # ""
                 THEN [none EXCEPT !.err = r.err, !.rpc = calls,
                                   !.executeJs = r.executeJs]
                 ELSE IF ~IsSome(r.ret)
                 THEN [none EXCEPT !.err = "TypeError", !.rpc = calls,
                                   !.executeJs = r.executeJs]
                 ELSE [none EXCEPT !.rpc = calls, !.executeJs = r.executeJs,
                                   !.ret = Some(<<serialize(transaction),
                                                  Get(r.ret).signature>>)]

RunLitAction(prop, sigName, outcome) ==
    /\ last.pc = "idle"
    /\ LET r == runLitAction(prop, keccak256(<<"message">>), sigName, outcome)
       IN  last' = [LastIdle EXCEPT
                      !.op = "PKPWallet.runLitAction", !.pc = "done", !.err = r.err,
                      !.returned = IF r.err = "" THEN "success" ELSE "",
                      !.io = Some([prop |-> prop,
                                   transaction |-> [from |-> None, lacks |-> {}],
                                   rpc |-> <<>>, executeJs |-> r.executeJs,
                                   ret |-> r.ret])]
    /\ UNCHANGED <<connVars, defaultAuthCallback, storageUp, storeVars, gs>>

SignTransaction(prop, transaction, rpcFailsAt, outcome) ==
    /\ last.pc = "idle"
    /\ LET r == signTransaction(prop, transaction, rpcFailsAt, outcome)
       IN  last' = [LastIdle EXCEPT
                      !.op = "PKPWallet.signTransaction", !.pc = "done",
                      !.err = r.err,
                      !.returned = IF r.err = "" THEN "success" ELSE "",
                      !.io = Some([prop |-> prop, transaction |-> transaction,
                                   rpc |-> r.rpc, executeJs |-> r.executeJs,
                                   ret |-> r.ret])]
    /\ UNCHANGED <<connVars, defaultAuthCallback, storageUp, storeVars, gs>>

NextWallet ==
    \/ Connect
    \/ \E prop \in WalletProps, outcome \in ExecuteJsOutcomes :
          \E sigName \in {"sig1", "pkp-eth-sign-tx"} :
             RunLitAction(prop, sigName, outcome)
    \/ \E prop \in WalletProps, transaction \in TransactionRequests,
          rpcFailsAt \in 0..Len(ProviderFields), outcome \in ExecuteJsOutcomes :
          SignTransaction(prop, transaction, rpcFailsAt, outcome)

SpecWallet == InitOps /\ [][NextWallet]_vars

\* ====================================================================== claims
GsDone(c) == gs[c].pc = "done"
GsOk(c) == gs[c].pc = "done" /\ gs[c].err = "" /\ IsSome(gs[c].result)
SigsOf(c) == Get(gs[c].result)

\* the template a session sig signs, read back from its signedMessage
TemplateOf(s) == Get(JSONparse(s.signedMessage)).template
NodeAddressOf(s) == Get(JSONparse(s.signedMessage)).nodeAddress
\* the wallet AuthSig that anchors a session sig: the last capability
AnchorOf(s) == LET caps == TemplateOf(s).capabilities IN caps[Len(caps)]

\* the capability object decoded from an AuthSig covers every request
Covers(authSig, rars) ==
    /\ Len(authSig.signedMessage.resources) > 0
    /\ \A i \in DOMAIN rars :
          verifyCapabilitiesForResource(decode(authSig.signedMessage.resources[1]),
                                        rars[i].resource, rars[i].ability)

\* the call returned without invoking the re-sign callback
NoResign(c) == gs[c].need = Some(FALSE)

\* C3 as stated: every returned SessionSigsMap is anchored on an AuthSig that
\* covers every requested (resource, ability), whatever the callback returned.
C3_ContainmentWhateverCallback ==
    \A c \in CallIds : GsOk(c) =>
        \A u \in DOMAIN SigsOf(c) : Covers(AnchorOf(SigsOf(c)[u]), rarsOf(gs[c]))

\* C3 (amended): capability containment holds for every SessionSigsMap returned
\* by a call that did not invoke the re-sign callback, whatever the slot held
\* and whatever the callback of #getWalletSig returned.
C3_ContainmentWithoutResign ==
    \A c \in CallIds : (GsOk(c) /\ NoResign(c)) =>
        \A u \in DOMAIN SigsOf(c) :
            /\ AnchorOf(SigsOf(c)[u]) = Get(gs[c].checked)
            /\ Covers(AnchorOf(SigsOf(c)[u]), rarsOf(gs[c]))

C3_Witness ==
    /\ GsOk(1) /\ NoResign(1)
    /\ rarsOf(gs[1]) # <<>>
    /\ Len(gs[1].cbLog) = 1
    /\ DOMAIN SigsOf(1) # {}

\* C4 as stated: the SIWE uri of the AuthSig anchoring a returned session sig
\* is "lit:session:" + the session sig's address, after any sequence of calls.
C4_UriConsistencyAlways ==
    \A c \in CallIds : GsOk(c) =>
        \A u \in DOMAIN SigsOf(c) :
            AnchorOf(SigsOf(c)[u]).signedMessage.uri
                = <<"lit:session:", SigsOf(c)[u].address>>

\* C4 (amended): the uri consistency holds for every session sig returned by a
\* call that did not invoke the re-sign callback (cache hit, or a cache miss
\* whose callback answer passed the re-sign predicate).
C4_UriConsistencyWithoutResign ==
    \A c \in CallIds : (GsOk(c) /\ NoResign(c)) =>
        \A u \in DOMAIN SigsOf(c) :
            /\ SigsOf(c)[u].address = Get(gs[c].sessionKey).publicKey
            /\ AnchorOf(SigsOf(c)[u]).signedMessage.uri
                  = <<"lit:session:", SigsOf(c)[u].address>>

C4_Witness ==
    /\ GsOk(1) /\ NoResign(1)
    /\ gs[1].cbLog = <<>>
    /\ ~IsSome(Get(gs[1].p).sessionKey)
    /\ DOMAIN SigsOf(1) # {}

\* C5: the re-sign predicate is true iff the signature does not verify, or
\* the uri differs from the session key uri, or the resources list is empty,
\* or the decoded capability object fails some requested (resource, ability);
\* it is false in every other case.
C5_ResignPredicate ==
    \A c \in CallIds : IsSome(gs[c].need) =>
        LET a == Get(gs[c].checked)
            m == a.signedMessage
            rars == rarsOf(gs[c])
        IN  Get(gs[c].need) =
              (\/ ~SiweValidate(m, a.sig)
               \/ m.uri # <<"lit:session:", Get(gs[c].sessionKey).publicKey>>
               \/ m.resources = <<>>
               \/ \E i \in DOMAIN rars :
                     ~verifyCapabilitiesForResource(decode(m.resources[1]),
                                                    rars[i].resource, rars[i].ability))

C5_Witness ==
    /\ gs[1].need = Some(TRUE)
    /\ LET a == Get(gs[1].checked)
       IN  /\ SiweValidate(a.signedMessage, a.sig)
           /\ a.signedMessage.uri = uriOf(gs[1])
           /\ a.signedMessage.resources # <<>>

\* the AuthSig the WALLET_SIGNATURE slot held when the call read it, if parsable
StoredAuthSig(c) ==
    IF IsSome(gs[c].stored) /\ ~StorageMissing(Get(gs[c].stored))
    THEN JSONparse(Get(Get(gs[c].stored)))
    ELSE None

\* C6: when the slot holds an AuthSig that is not stale for the session key
\* uri and the requested abilities, getSessionSigs invokes no auth callback,
\* anchors the returned session sigs on the cached AuthSig and leaves the slot
\* as it is (so the next call finds it again).
C6_CacheHitNoCallback ==
    \A c \in CallIds :
        (/\ IsSome(StoredAuthSig(c))
         /\ ~checkNeedToResignSessionKey(Get(StoredAuthSig(c)), uriOf(gs[c]),
                                         rarsOf(gs[c])))
        => /\ gs[c].cbLog = <<>>
           /\ gs[c].pc = "done"
           /\ walletSlot = Get(gs[c].stored)
           /\ GsOk(c) => \A u \in DOMAIN SigsOf(c) :
                            AnchorOf(SigsOf(c)[u]) = Get(StoredAuthSig(c))

C6_Witness ==
    /\ GsOk(1)
    /\ IsSome(StoredAuthSig(1))
    /\ gs[1].cbLog = <<>>
    /\ Cardinality(DOMAIN SigsOf(1)) >= 2

\* the call reached #getWalletSig and found the slot absent or unparsable
SlotAbsentOrUnparsable(c) ==
    /\ IsSome(gs[c].stored)
    /\ ~IsSome(StoredAuthSig(c))

FirstCallbackBy(c, who) ==
    /\ gs[c].cbLog # <<>>
    /\ gs[c].cbLog[1].step = "getWalletSig"
    /\ gs[c].cbLog[1].who = who

\* C7 as stated: a parsable slot is returned as is; an absent or unparsable
\* slot makes #getWalletSig invoke authNeededCallback, else the default
\* callback, else fail with ParamsMissing.
C7_ResolutionOrder ==
    \A c \in CallIds :
        /\ IsSome(StoredAuthSig(c)) =>
              /\ gs[c].checked = StoredAuthSig(c)
              /\ \A i \in DOMAIN gs[c].cbLog : gs[c].cbLog[i].step # "getWalletSig"
        /\ (SlotAbsentOrUnparsable(c) /\ Get(gs[c].p).authNeededCallback) =>
              FirstCallbackBy(c, "authNeededCallback")
        /\ (SlotAbsentOrUnparsable(c) /\ ~Get(gs[c].p).authNeededCallback
                /\ defaultAuthCallback) =>
              FirstCallbackBy(c, "defaultAuthCallback")
        /\ (SlotAbsentOrUnparsable(c) /\ ~Get(gs[c].p).authNeededCallback
                /\ ~defaultAuthCallback) =>
              (gs[c].err = "ParamsMissing" /\ gs[c].cbLog = <<>>)

\* the re-sign callback was invoked and has returned
ResignReturned(c) ==
    /\ gs[c].pc = "done"
    /\ gs[c].need = Some(TRUE)
    /\ gs[c].cbLog # <<>>
    /\ gs[c].cbLog[Len(gs[c].cbLog)].step = "resign"
    /\ IsSome(gs[c].cbLog[Len(gs[c].cbLog)].ret)

ResignEntry(c) == gs[c].cbLog[Len(gs[c].cbLog)]

ResignInvokedOnceWithFullContext(c) ==
    /\ Cardinality({i \in DOMAIN gs[c].cbLog : gs[c].cbLog[i].step = "resign"}) = 1
    /\ ResignEntry(c).who = IF Get(gs[c].p).authNeededCallback
                            THEN "authNeededCallback" ELSE "defaultAuthCallback"
    /\ ResignEntry(c).args.uri = uriOf(gs[c])
    /\ ResignEntry(c).args.resources = Some(<<encodeAsSiweResource(gs[c].capObj)>>)
    /\ ResignEntry(c).args.nonce
    /\ ResignEntry(c).args.expiration = expirationUsed(Get(gs[c].p))
    /\ ResignEntry(c).args.resourceAbilityRequests = Some(rarsOf(gs[c]))

AnchoredOnNew(c) ==
    GsOk(c) => \A u \in DOMAIN SigsOf(c) :
                  AnchorOf(SigsOf(c)[u]) = Get(ResignEntry(c).ret)

\* C8 as stated: a stale AuthSig makes getSessionSigs invoke the auth callback
\* exactly once more with the full context, the slot is replaced by the new
\* AuthSig, and the session sigs are anchored on the new AuthSig.
C8_ResignReplacesSlot ==
    \A c \in CallIds : ResignReturned(c) =>
        /\ ResignInvokedOnceWithFullContext(c)
        /\ walletSlot = Some(JSONstringify(Get(ResignEntry(c).ret)))
        /\ AnchoredOnNew(c)

\* C8 (amended): the same, except that the slot holds the new AuthSig only
\* when the storage write succeeds; when the write fails the item is removed
\* (the slot is empty then, unless the removal fails too) and the call continues.
C8_ResignReplacesSlotIfWritable ==
    \A c \in CallIds : ResignReturned(c) =>
        /\ ResignInvokedOnceWithFullContext(c)
        /\ ResignEntry(c).written =>
              walletSlot = Some(JSONstringify(Get(ResignEntry(c).ret)))
        /\ ResignEntry(c).removed => walletSlot = None
        /\ AnchoredOnNew(c)

C8_Witness ==
    /\ ResignReturned(1) /\ GsOk(1)
    /\ IsSome(StoredAuthSig(1))
    /\ Get(StoredAuthSig(1)).signedMessage.resources = <<encodeAsSiweResource(CapActionOnly)>>
    /\ rarsOf(gs[1]) = <<PkpSignRequest>>
    /\ ResignEntry(1).written
    /\ AnchorOf(SigsOf(1)[1]) # Get(StoredAuthSig(1))

\* C9: a successful getSessionSigs returns a map whose key set is exactly the
\* set of connected node URLs; the entry of url u has derivedVia
\* "litSessionSignViaNacl", algo "ed25519", address = the session public key
\* and a signedMessage whose nodeAddress is u.
C9_MapShape ==
    [][\A c \in CallIds :
          (gs[c].pc # "done" /\ gs'[c].pc = "done" /\ gs'[c].err = ""
               /\ IsSome(gs'[c].result))
          => LET sigs == Get(gs'[c].result)
             IN  /\ DOMAIN sigs = Range(connectedNodes)
                 /\ \A u \in DOMAIN sigs :
                       /\ sigs[u].derivedVia = "litSessionSignViaNacl"
                       /\ sigs[u].algo = "ed25519"
                       /\ sigs[u].address = Get(gs'[c].sessionKey).publicKey
                       /\ NodeAddressOf(sigs[u]) = u]_vars

C9_Witness ==
    /\ GsOk(1)
    /\ connState = "Ready"
    /\ Range(connectedNodes) = {2}
    /\ DOMAIN SigsOf(1) = {2}

\* the error kinds of the parameter-shape and readiness checks
ShapeOrReadinessErrors ==
    {"ParamsMissing", "InvalidParamType", "InvalidArgumentException", "ParamNull",
     "LitNodeClientNotReady"}

\* C1: a request operation called while the client is not Ready fails with
\* LitNodeClientNotReady.
C1_NotReadyFailsNotReady ==
    (last.pc # "idle" /\ ~last.ready) =>
        (last.pc = "done" /\ last.err = "LitNodeClientNotReady")

\* C2: when a call fails with a parameter-shape or readiness error, no node
\* request has been issued by that call.
C2_NoRequestBeforeShapeError ==
    (\/ last.pc = "failed" /\ last.pendingErr \in ShapeOrReadinessErrors
     \/ last.pc = "done" /\ last.err \in ShapeOrReadinessErrors)
    => last.sent = <<>>

\* C10: every request sent by executeJs, pkpSign, getSignedToken, decrypt and
\* runOnTargetedNodes on behalf of a call that was given sessionSigs carries
\* authSig = sessionSigs[url], and that entry exists.
C10_RequestsCarrySessionSig ==
    (last.op \in {"executeJs", "pkpSign", "getSignedToken", "decrypt",
                  "runOnTargetedNodes"}
        /\ IsSome(last.p.sessionSigs))
    => \A i \in DOMAIN last.sent :
          /\ IsSome(last.sent[i].authSig)
          /\ last.sent[i].authSig = getSessionSigByUrl(last.p.sessionSigs, last.sent[i].url)

\* a finished call on a Ready client whose every run of the wrapper fanned out
\* to all connected nodes and got the answers of oks[i] (the others failed)
FannedOutToAll ==
    /\ last.pc = "done" /\ last.ready
    /\ last.phase = "main"
    /\ last.oks # <<>>
    /\ Len(last.oks) = last.attempt
    /\ last.rejected = {}
    /\ last.batch = Range(connectedNodes)
    /\ Len(last.sent) = last.attempt * Len(connectedNodes)

SameAnswersEveryAttempt == \A i \in DOMAIN last.oks : last.oks[i] = last.oks[1]

QuorumOps == {"executeJs", "pkpSign", "signSessionKey", "decrypt", "getSignedToken"}

\* C11 as stated: with k nodes answering and the others failing on every
\* attempt, the request succeeds iff k >= minNodeCount, for all five operations.
C11_QuorumIsMinNodeCount ==
    (FannedOutToAll /\ SameAnswersEveryAttempt /\ last.op \in QuorumOps)
    => (last.returned = "success" <=> Cardinality(last.oks[1]) >= MinNodeCount)

\* C11 (amended): with k nodes answering and the others failing on every
\* attempt, the request succeeds iff k reaches the quorum the operation asks
\* for: minNodeCount for decrypt and getSignedToken, the number of connected
\* nodes for executeJs, pkpSign and signSessionKey.
C11_QuorumIsPassedThreshold ==
    (FannedOutToAll /\ SameAnswersEveryAttempt /\ last.op \in QuorumOps)
    => (last.returned = "success"
          <=> Cardinality(last.oks[1]) >=
                 (IF last.op \in {"decrypt", "getSignedToken"}
                  THEN MinNodeCount ELSE Len(connectedNodes)))

C11_Witness ==
    /\ FannedOutToAll /\ SameAnswersEveryAttempt
    /\ last.op = "executeJs"
    /\ Len(connectedNodes) > MinNodeCount
    /\ Cardinality(last.oks[1]) = MinNodeCount
    /\ last.attempt = RetryTolerance
    /\ last.err = "NodeError"

\* attempt i of the finished call reached the quorum of its operation
Reached(i) ==
    Cardinality(last.oks[i]) >=
        (IF last.phase = "targeted" THEN last.p.targetNodeRange
         ELSE IF last.op \in {"decrypt", "getSignedToken"} THEN MinNodeCount
         ELSE Len(connectedNodes))

\* a finished dispatched call, each of whose runs of the wrapper sent its batch
Dispatched ==
    /\ last.pc = "done" /\ last.ready
    /\ last.oks # <<>>
    /\ Len(last.oks) = last.attempt
    /\ last.rejected = {}

\* C12: the wrapper is run until the first attempt that reaches quorum or until
\* retryTolerance attempts are used up, never more; the call then returns the
\* first successful batch or, when every attempt failed, raises the node error.
C12_BoundedRetryNodeError ==
    Dispatched =>
        /\ last.attempt <= RetryTolerance
        /\ \A i \in 1..(last.attempt - 1) : ~Reached(i)
        /\ IF Reached(last.attempt)
           THEN last.returned = "success"
           ELSE last.attempt = RetryTolerance /\ last.err = "NodeError"

\* the bound alone: never more than retryTolerance runs, none after a success
RetryIsBounded ==
    (last.pc # "idle" /\ last.attempt > 0) =>
        /\ last.attempt <= RetryTolerance
        /\ Len(last.oks) <= last.attempt
        /\ \A i \in 1..(Len(last.oks) - 1) : ~Reached(i)

\* a finished decrypt call that got as far as assembling its identity parameter
Decrypted == last.pc = "done" /\ last.op = "decrypt" /\ IsSome(last.io)

C14_IdentityInjective ==
    Decrypted =>
        LET dec == Get(last.io)
            enc == dec.enc
        IN  (dec.identityParam = enc.identityParam)
               <=> (/\ sha256Hex(dec.conds) = sha256Hex(enc.conds)
                    /\ dec.dataToEncryptHash = enc.dataToEncryptHash)

C14_Witness ==
    /\ Decrypted
    /\ Get(last.io).identityParam # Get(last.io).enc.identityParam
    /\ Len(Get(last.io).identityParam) = Len(Get(last.io).enc.identityParam)
    /\ sha256Hex(Get(last.io).conds) \o Get(last.io).dataToEncryptHash
          = sha256Hex(Get(last.io).enc.conds) \o Get(last.io).enc.dataToEncryptHash

\* the selection loop of a runOnTargetedNodes call has run (and maybe finished)
Selecting == last.op = "runOnTargetedNodes" /\ last.phase \in {"ipfs", "targeted"}
                /\ (last.phase = "ipfs" => last.pc = "select")

\* SHA-256(str(c) + ":" + ipfsId) mod |U|
IndexAt(c) == hashAsNumber(c, getIpfsId(last.p.code)) % Len(bootstrapUrls)

\* the counters, among those consumed, whose index no earlier counter gave
FirstSeenCounters ==
    {c \in 0..(last.nodeCounter - 1) : \A d \in 0..(c - 1) : IndexAt(d) # IndexAt(c)}

\* C15: the selected index list is pairwise distinct, within [0, |U|), and is
\* the list of first-seen values of SHA-256(str(c) + ":" + ipfsId) mod |U| for
\* c = 0, 1, 2, ... (so a function of ipfsId, U and k alone, the same on every
\* call); the loop consumes no counter beyond the one that completes the list.
C15_SelectionIsFirstSeen ==
    Selecting =>
        /\ \A i, j \in DOMAIN last.sel : i # j => last.sel[i] # last.sel[j]
        /\ \A i \in DOMAIN last.sel : last.sel[i] \in 0..(Len(bootstrapUrls) - 1)
        /\ Len(last.sel) = Cardinality(FirstSeenCounters)
        /\ Len(last.sel) <= last.p.targetNodeRange
        /\ \A i \in DOMAIN last.sel :
              \E c \in FirstSeenCounters :
                 /\ IndexAt(c) = last.sel[i]
                 /\ Cardinality({d \in FirstSeenCounters : d < c}) = i - 1
        /\ (last.nodeCounter > 0 /\ last.sel # <<>>)
              => IndexAt(last.nodeCounter - 1) = last.sel[Len(last.sel)]
                 \/ Len(last.sel) < last.p.targetNodeRange

C15_Witness ==
    /\ Selecting /\ last.phase = "targeted"
    /\ last.p.targetNodeRange = 2
    /\ last.sel = <<0, 1>>
    /\ last.nodeCounter = 3

\* C16: within one getSessionSigs call the session key is there before any
\* wallet callback is invoked (each callback is handed the uri of that key),
\* and no template is signed before the wallet AuthSig, re-sign included, has
\* been obtained: while a callback is pending nothing is signed, and every
\* signed template is signed with the session key of the call and carries the
\* AuthSig the call ended up with.
C16_HappensBefore ==
    \A c \in CallIds :
       LET g == gs[c]
       IN  /\ g.cbLog # <<>> =>
                /\ IsSome(g.sessionKey)
                /\ \A i \in DOMAIN g.cbLog : g.cbLog[i].args.uri = uriOf(g)
           /\ g.pc \in {"cb1", "cb2"} => g.result = None
           /\ IsSome(g.result) =>
                /\ g.pc = "done"
                /\ IsSome(g.sessionKey) /\ IsSome(g.authSig)
                /\ \A i \in DOMAIN g.cbLog : IsSome(g.cbLog[i].ret)
                /\ g.cbLog # <<>> => g.authSig = g.cbLog[Len(g.cbLog)].ret
                /\ \A n \in DOMAIN Get(g.result) :
                      /\ Get(g.result)[n].sig.signedBy = Get(g.sessionKey).secretKey
                      /\ AnchorOf(Get(g.result)[n]) = Get(g.authSig)

C16_Witness ==
    /\ GsOk(1)
    /\ ~IsSome(Get(gs[1].p).sessionKey)
    /\ Len(gs[1].cbLog) = 2
    /\ DOMAIN Get(gs[1].result) # {}

\* a getSessionSigs call starts in this step and calls getSessionKey
KeyCallStarts(c) ==
    /\ gs[c].pc \in {"idle", "done"}
    /\ gs'[c] # gs[c]
    /\ IsSome(gs'[c].keyRead)

\* the call before this step obtained its key pair from getSessionKey
KeyCallBefore(c) ==
    gs[c].pc = "done" /\ IsSome(gs[c].keyRead) /\ IsSome(gs[c].sessionKey)

\* C17 as stated: of two getSessionKey calls in a row, the later returns the
\* pair the earlier returned.
C17_LaterCallsSamePair ==
    [][\A c \in CallIds :
          (KeyCallBefore(c) /\ KeyCallStarts(c))
             => gs'[c].sessionKey = gs[c].sessionKey]_vars

\* C17 (amended): a call that finds no key (empty or unreadable slot) creates
\* a pair and tries to persist it; a call that reads a persisted pair returns
\* that pair and leaves the slot alone, so a later call returns the pair of
\* the earlier one whenever that pair is in the slot and the slot can be read;
\* nothing but a creating call changes the slot.
C17_ReuseWhenPersisted ==
    [][/\ \A c \in CallIds :
          KeyCallStarts(c) =>
               /\ StorageMissing(IF storageUp THEN sessionKeySlot ELSE None) =>
                     /\ gs'[c].sessionKey = Some(SessionKeyPair(nextKey))
                     /\ sessionKeySlot' \in
                           {sessionKeySlot, Some(JSONstringify(SessionKeyPair(nextKey)))}
               /\ \A k \in 1..MaxKeys :
                     (storageUp /\ sessionKeySlot = Some(JSONstringify(SessionKeyPair(k))))
                        => /\ gs'[c].sessionKey = Some(SessionKeyPair(k))
                           /\ sessionKeySlot' = sessionKeySlot
               /\ (/\ KeyCallBefore(c) /\ storageUp
                   /\ sessionKeySlot = Some(JSONstringify(Get(gs[c].sessionKey))))
                        => gs'[c].sessionKey = gs[c].sessionKey
       /\ sessionKeySlot' # sessionKeySlot =>
             \E c \in CallIds :
                /\ KeyCallStarts(c)
                /\ sessionKeySlot' = Some(JSONstringify(Get(gs'[c].sessionKey)))]_vars

C17_Witness ==
    /\ gs[1].pc = "done"
    /\ gs[1].keyRead = Some(Some(JSONstringify(SessionKeyPair(2))))
    /\ gs[1].sessionKey = Some(SessionKeyPair(2))
    /\ sessionKeySlot = Some(JSONstringify(SessionKeyPair(2)))

\* C18: a lit-session-key slot holding a non-empty text that is not valid JSON
\* does not make the call fail (a fresh key pair is generated), and an
\* unparsable lit-wallet-signature slot does not make getSessionSigs fail.
C18_ParseErrorsTolerated ==
    \A c \in CallIds :
       GsDone(c) =>
          /\ gs[c].keyRead = Some(Some(GarbageText)) =>
                (gs[c].err # "SyntaxError" /\ IsSome(gs[c].sessionKey))
          /\ gs[c].stored = Some(Some(GarbageText)) => gs[c].err # "TypeError"

\* what a call hands back: its error or its map, and the AuthSig it ended with
Outcome(g) == [err |-> g.err, result |-> g.result, authSig |-> g.authSig]

\* the same call replayed on a working store: same params, same key, same
\* content read from the wallet slot, same answers of the callbacks
ReplayStart(g) ==
    GsWalletSig([GsIdle EXCEPT !.p = g.p, !.sessionKey = g.sessionKey,
                               !.keyRead = g.keyRead, !.capObj = g.capObj],
                Get(g.stored), defaultAuthCallback, connectedNodes)

ReplayWallet(g) ==
    LET g1 == ReplayStart(g)
    IN  IF g1.pc # "cb1" THEN g1
        ELSE IF ~IsSome(g.cbLog[1].ret) THEN GsFail(g1, "CallbackError")
        ELSE GsCheck([g1 EXCEPT !.cbLog[1].ret = g.cbLog[1].ret,
                                !.cbLog[1].written = TRUE],
                     g.cbLog[1].ret, defaultAuthCallback, connectedNodes)

Replay(g) ==
    LET g2 == ReplayWallet(g)
        n == Len(g.cbLog)
    IN  IF g2.pc # "cb2" THEN g2
        ELSE IF ~IsSome(g.cbLog[n].ret) THEN GsFail(g2, "CallbackError")
        ELSE GsFinish([g2 EXCEPT !.cbLog[n].ret = g.cbLog[n].ret,
                                 !.cbLog[n].written = TRUE],
                      Get(g.cbLog[n].ret), connectedNodes)

\* some storage operation of the call failed
StorageFailed(g) ==
    \/ ~storageUp
    \/ \E i \in DOMAIN g.cbLog : IsSome(g.cbLog[i].ret) /\ ~g.cbLog[i].written

\* the last callback of the call that has answered
LastAnswered(g) ==
    LET A == {i \in DOMAIN g.cbLog : IsSome(g.cbLog[i].ret)}
    IN  CHOOSE i \in A : \A j \in A : j <= i

\* C19: storage failures are never fatal. A store that cannot be read is
\* treated as an empty one (a key pair is generated, the wallet is asked), a
\* call in which a read, a write or a removal failed ends as the same call
\* does on a working store (an unreadable store counting as an empty one),
\* and when the write after an auth callback succeeds the WALLET_SIGNATURE
\* slot holds exactly the AuthSig that callback returned.
C19_StorageFailuresNotFatal ==
    \A c \in CallIds :
       LET g == gs[c]
       IN  /\ (~storageUp /\ IsSome(g.keyRead)) => g.keyRead = Some(None)
           /\ (~storageUp /\ IsSome(g.stored)) => g.stored = Some(None)
           /\ (g.pc = "done" /\ IsSome(g.stored) /\ StorageFailed(g))
                 => Outcome(g) = Outcome(Replay(g))
           /\ (\E i \in DOMAIN g.cbLog : IsSome(g.cbLog[i].ret))
                 => (g.cbLog[LastAnswered(g)].written
                       => walletSlot = Some(JSONstringify(Get(g.cbLog[LastAnswered(g)].ret))))

C19_Witness ==
    /\ GsOk(1) /\ ~storageUp
    /\ gs[1].keyRead = Some(None) /\ gs[1].stored = Some(None)
    /\ Len(gs[1].cbLog) = 2
    /\ ~gs[1].cbLog[1].written /\ ~gs[1].cbLog[2].written /\ ~gs[1].cbLog[2].removed
    /\ Outcome(gs[1]) = Outcome(Replay(gs[1]))

\* the call got as far as the field check of the AuthSig it ended up with
ReachedFieldCheck(g) ==
    /\ g.pc = "done" /\ IsSome(g.authSig)
    /\ \/ g.need = Some(FALSE)
       \/ /\ g.need = Some(TRUE) /\ g.cbLog # <<>>
          /\ g.cbLog[Len(g.cbLog)].step = "resign"
          /\ g.cbLog[Len(g.cbLog)].ret = g.authSig

\* the AuthSig lacks a non-empty value in one of the four fields
LacksField(authSig) ==
    \E v \in {"", Undefined} :
       \/ authSig.address = v
       \/ authSig.derivedVia = v
       \/ authSig.sig = v

\* C20: getSessionSigs fails with WalletSignatureNotFound and returns no map
\* whenever the AuthSig it ends up with lacks a non-empty address, derivedVia,
\* sig or signedMessage, a missing field included.
C20_LackingFieldFails ==
    \A c \in CallIds :
       (ReachedFieldCheck(gs[c]) /\ LacksField(Get(gs[c].authSig)))
          => (gs[c].err = "WalletSignatureNotFound" /\ gs[c].result = None)

\* a getSessionSigs call starts in this step
GsCallStarts(c) == gs[c].pc \in {"idle", "done"} /\ gs'[c] # gs[c]

\* C21: with no latest blockhash, getSessionSigs fails with InvalidEthBlockhash
\* before any wallet callback is invoked, without writing the WALLET_SIGNATURE
\* slot and without signing a template.
C21_NoBlockhashFails ==
    [][\A c \in CallIds :
          (GsCallStarts(c) /\ ~IsSome(latestBlockhash)) =>
              /\ gs'[c].pc = "done"
              /\ gs'[c].err = "InvalidEthBlockhash"
              /\ gs'[c].cbLog = <<>>
              /\ gs'[c].result = None
              /\ walletSlot' = walletSlot]_vars

\* with no latest blockhash the call ends at once with some error: no callback,
\* no write of the wallet slot, no template
NoBlockhashStopsCall ==
    [][\A c \in CallIds :
          (GsCallStarts(c) /\ ~IsSome(latestBlockhash)) =>
              /\ gs'[c].pc = "done"
              /\ gs'[c].err \in {"InvalidEthBlockhash", "SyntaxError"}
              /\ gs'[c].err = "SyntaxError" => gs'[c].keyRead = Some(Some(GarbageText))
              /\ gs'[c].cbLog = <<>>
              /\ gs'[c].result = None
              /\ walletSlot' = walletSlot]_vars

\* C22: when the caller supplies no expiration, every returned session sig has
\* template expiration now + 5 minutes, not the now + 24 hours of the wallet
\* SIWE default.
C22_DefaultIsFiveMinutes ==
    \A c \in CallIds :
       (GsOk(c) /\ ~IsSome(expirationOf(Get(gs[c].p)))) =>
           \A u \in DOMAIN SigsOf(c) :
              /\ TemplateOf(SigsOf(c)[u]).expiration = FiveMinutes
              /\ TemplateOf(SigsOf(c)[u]).expiration # getExpiration

\* the call generated its capability object and reached the wallet step
GeneratedCapability(c) ==
    /\ gs[c].pc # "idle" /\ IsSome(gs[c].stored)
    /\ Get(gs[c].p).sessionCapabilityObject = "absent"

\* C23: with no sessionCapabilityObject in params, the generated capability
\* object grants wildcard abilities on every requested resource, so that
\* verifyCapabilitiesForResource holds on it for every requested (r, a), and
\* the SIWE resource handed to the wallet callback encodes those grants.
C23_GeneratedObjectCoversRequests ==
    \A c \in CallIds :
       GeneratedCapability(c) =>
          /\ \A i \in DOMAIN rarsOf(gs[c]) :
                verifyCapabilitiesForResource(gs[c].capObj, rarsOf(gs[c])[i].resource,
                                              rarsOf(gs[c])[i].ability)
          /\ \A j \in DOMAIN gs[c].cbLog :
                /\ gs[c].cbLog[j].args.resources = Some(<<encodeAsSiweResource(gs[c].capObj)>>)
                /\ \A i \in DOMAIN rarsOf(gs[c]) :
                      verifyCapabilitiesForResource(
                          decode(Get(gs[c].cbLog[j].args.resources)[1]),
                          rarsOf(gs[c])[i].resource, rarsOf(gs[c])[i].ability)

\* the capabilities list of template t is params.capabilityAuthSigs in caller
\* order, then params.capacityDelegationAuthSig when supplied, then authSig
IsCapabilityChain(caps, p, authSig) ==
    LET given == capabilityAuthSigsOf(p)
        d == IF IsSome(capacityDelegationAuthSigOf(p)) THEN 1 ELSE 0
    IN  /\ Len(caps) = Len(given) + d + 1
        /\ \A i \in DOMAIN given : caps[i] = given[i]
        /\ d = 1 => caps[Len(given) + 1] = Get(capacityDelegationAuthSigOf(p))
        /\ caps[Len(caps)] = authSig

\* C24 as stated: the capabilities list of every signed template is that chain,
\* and the wallet AuthSig appears in it exactly once.
C24_ChainWalletSigOnce ==
    \A c \in CallIds : GsOk(c) =>
       \A u \in DOMAIN SigsOf(c) :
          LET caps == TemplateOf(SigsOf(c)[u]).capabilities
          IN  /\ IsCapabilityChain(caps, Get(gs[c].p), Get(gs[c].authSig))
              /\ Cardinality({i \in DOMAIN caps : caps[i] = Get(gs[c].authSig)}) = 1

\* C24 (amended): the capabilities list of every signed template is exactly
\* capabilityAuthSigs, then capacityDelegationAuthSig when supplied, then the
\* wallet AuthSig, appended once as the last element; it appears a second
\* time only at a position where the caller's own lists hold it.
C24_CapabilityChain ==
    \A c \in CallIds : GsOk(c) =>
       \A u \in DOMAIN SigsOf(c) :
          LET caps == TemplateOf(SigsOf(c)[u]).capabilities
              p == Get(gs[c].p)
          IN  /\ IsCapabilityChain(caps, p, Get(gs[c].authSig))
              /\ \A i \in 1..(Len(caps) - 1) :
                    caps[i] = Get(gs[c].authSig) =>
                       \/ i \in DOMAIN capabilityAuthSigsOf(p)
                            /\ capabilityAuthSigsOf(p)[i] = Get(gs[c].authSig)
                       \/ capacityDelegationAuthSigOf(p) = gs[c].authSig

C24_Witness ==
    /\ GsOk(1)
    /\ Get(gs[1].p).extras = "delegated"
    /\ DOMAIN SigsOf(1) # {}
    /\ \A u \in DOMAIN SigsOf(1) :
          TemplateOf(SigsOf(1)[u]).capabilities
             = <<OtherCapabilityAuthSig, DelegationAuthSig, Get(gs[1].authSig)>>

\* a finished call made through getLitActionSessionSigs
LitActionDone(c) == GsDone(c) /\ IsSome(gs[c].p) /\ viaLitAction(Get(gs[c].p))

ExactlyOneAndJsParams(p) ==
    /\ litActionCodeOf(p) # litActionIpfsIdOf(p)
    /\ jsParamsOf(p)

\* C25: getLitActionSessionSigs succeeds only when exactly one of
\* litActionCode and litActionIpfsId is supplied and jsParams is supplied; a
\* call with neither, with both, or without jsParams fails and returns no
\* session sigs, whether or not a valid wallet AuthSig is cached.
C25_LitActionParamsRequired ==
    \A c \in CallIds :
       (LitActionDone(c) /\ ~ExactlyOneAndJsParams(Get(gs[c].p)))
          => (gs[c].err # "" /\ gs[c].result = None)

Handled == last.op = "executeJs" /\ last.pc = "done" /\ IsSome(last.io)

HelloShare ==
    [success |-> TRUE, signedData |-> {}, claimData |-> {},
     response |-> "", logs |-> HelloLogs]

AllHello ==
    \A i \in DOMAIN Get(last.io).responseData :
        Get(last.io).responseData[i] = HelloShare

\* C26: when the majority answer carries neither signedData nor claimData,
\* executeJs returns without calling the share combiner; when every node
\* answers the console.log('hello world') action, whatever the number of
\* nodes, the result has success true, an empty response and the logs
\* "hello world\n"
C26_NoSigningReturnsDirectly ==
    Handled =>
        LET io == Get(last.io)
        IN  /\ (io.mostCommonResponse.signedData = {}
                  /\ io.mostCommonResponse.claimData = {})
               => /\ ~io.result.combinerCalled
                  /\ io.result.signatures = None
                  /\ io.result.claims = {}
            /\ AllHello
               => /\ io.result.branch = "direct"
                  /\ io.result.success = Some(TRUE)
                  /\ io.result.response = AsString("")
                  /\ io.result.logs = HelloLogs

C26_Witness ==
    /\ Handled
    /\ AllHello
    /\ Len(Get(last.io).responseData) = MaxShares
    /\ ~Get(last.io).result.combinerCalled

ResponsesOf(io) ==
    [i \in DOMAIN io.responseData |-> io.responseData[i].response]

StrictMajority(io) == Cardinality(MostFrequent(ResponsesOf(io))) = 1

MajorityString(io) == CHOOSE v \in MostFrequent(ResponsesOf(io)) : TRUE

PkpSignCalled == last.op = "pkpSign" /\ last.pc # "idle"

PkpSignRejected ==
    ~last.p.shapeOk \/ (~IsSome(last.p.sessionSigs) /\ ~last.p.authMethods)

\* the first run of the wrapper is over and no node has answered yet
FirstAttemptMade ==
    last.pc \in {"wait", "failed"} /\ last.attempt = 1 /\ last.oks = <<>>

FirstBatch == {last.sent[i].url : i \in DOMAIN last.sent}

\* C28: pkpSign fails with ParamNull before any request when toSign or pubKey
\* is missing or when neither sessionSigs nor authMethods is given; with
\* either of the two its request goes to every connected node
C28_EitherCredentialDispatches ==
    PkpSignCalled =>
        IF PkpSignRejected
        THEN last.err = "ParamNull" /\ last.sent = <<>>
        ELSE /\ last.err # "ParamNull"
             /\ FirstAttemptMade => FirstBatch = Range(connectedNodes)

\* the checks of pkpSign reject exactly the calls that lack toSign or pubKey
\* or both credentials, before any request; a call that passes them reaches
\* every connected node only if sessionSigs has an entry for each of them
C28_ChecksThenSessionSigPerNode ==
    PkpSignCalled =>
        IF PkpSignRejected
        THEN last.err = "ParamNull" /\ last.sent = <<>>
        ELSE /\ last.err # "ParamNull"
             /\ FirstAttemptMade =>
                   IF \A n \in Range(connectedNodes) :
                         IsSome(getSessionSigByUrl(last.p.sessionSigs, n))
                   THEN FirstBatch = Range(connectedNodes)
                   ELSE /\ FirstBatch # Range(connectedNodes)
                        /\ last.pendingErr = "WalletSignatureNotFound"

DecryptFirstAttempt == last.op = "decrypt" /\ FirstAttemptMade

\* sessionSigs[url] ?? authSig
SessionSigOrAuthSig(p, url) ==
    IF IsSome(getSessionSigByUrl(p.sessionSigs, url))
    THEN getSessionSigByUrl(p.sessionSigs, url)
    ELSE IF p.authSig THEN Some([kind |-> "authSig", url |-> 0])
    ELSE None

\* C29: decrypt sends each node sessionSigs[url] when there is such an entry
\* and the caller's authSig otherwise; it fails with InvalidArgumentException
\* exactly when some node has neither, and then no share is combined
C29_SessionSigElseAuthSig ==
    DecryptFirstAttempt =>
        /\ \A i \in DOMAIN last.sent :
               last.sent[i].authSig = SessionSigOrAuthSig(last.p, last.sent[i].url)
        /\ IF \A n \in Range(connectedNodes) : IsSome(SessionSigOrAuthSig(last.p, n))
           THEN last.pc = "wait" /\ FirstBatch = Range(connectedNodes)
           ELSE /\ last.pc = "failed"
                /\ last.pendingErr = "InvalidArgumentException"
                /\ last.returned = ""

\* what decrypt does: the caller's authSig is used only when no sessionSigs
\* map is given at all
C29_AuthSigOnlyWithoutSessionSigs ==
    DecryptFirstAttempt =>
        /\ \A i \in DOMAIN last.sent :
               last.sent[i].authSig = authSigToSend(last.p, last.sent[i].url)
        /\ IF \A n \in Range(connectedNodes) : IsSome(authSigToSend(last.p, n))
           THEN last.pc = "wait" /\ FirstBatch = Range(connectedNodes)
           ELSE /\ last.pc = "failed"
                /\ last.pendingErr = "InvalidArgumentException"
                /\ last.returned = ""

BlsHandled == last.op = "signSessionKey" /\ last.pc = "done" /\ IsSome(last.io)

\* an answer with every required field, ProofOfPossession included
CompleteShare(d) ==
    /\ IsSome(d.signatureShare)
    /\ Get(d.signatureShare).ProofOfPossession # ""
    /\ d.dataSigned # ""

\* C30: signSessionKey drops the answers that miss a required field and
\* combines the others; it fails exactly when fewer than minNodeCount
\* complete answers remain
C30_DropsMalformedShares ==
    BlsHandled =>
        LET io == Get(last.io)
            complete == SelectSeq(io.responseData, CompleteShare)
        IN  /\ (last.err # "") <=> (Len(complete) < MinNodeCount)
            /\ last.err = "" => io.result.combined = Some(complete)

\* what signSessionKey does: an answer is dropped when a required field is
\* falsy (a shareIndex of 0 included); an answer that has them all but no
\* ProofOfPossession fails the call, however many complete answers there are
C30_ProofMissingIsFatal ==
    BlsHandled =>
        LET io == Get(last.io)
            passes == SelectSeq(io.responseData,
                                LAMBDA d : /\ IsSome(d.signatureShare)
                                           /\ d.shareIndex # 0
                                           /\ d.dataSigned # "")
            noProof == \E i \in DOMAIN passes : ~CompleteShare(passes[i])
        IN  /\ (last.err # "") <=> (noProof \/ Len(passes) < MinNodeCount)
            /\ last.err = "" => io.result.combined = Some(passes)

SharesCombined == last.op = "getSignedToken" /\ last.pc = "done" /\ IsSome(last.io)

\* the arrival orders of the same set of shares
ArrivalOrders(signatureShares) ==
    {p \in [DOMAIN signatureShares -> Range(signatureShares)] :
        Range(p) = Range(signatureShares)}

\* C31: whatever the order the shares arrived in, #combineSharesAndGetJWT
\* hands them to the aggregation primitive in ascending shareIndex order and
\* returns the same JWT, and combining the same shares again gives the same
\* JWT
C31_CombineIgnoresArrivalOrder ==
    SharesCombined =>
        LET io == Get(last.io)
        IN  /\ \A i, j \in DOMAIN io.passed :
                   i < j => io.passed[i][2] < io.passed[j][2]
            /\ {io.passed[i] : i \in DOMAIN io.passed}
                  = {signatureShareOf(io.signatureShares[i]) :
                        i \in DOMAIN io.signatureShares}
            /\ \A p \in ArrivalOrders(io.signatureShares) :
                   combineSharesAndGetJWT(p).finalJwt = io.finalJwt
            /\ io.again = io.finalJwt

C31_Witness ==
    /\ SharesCombined
    /\ Len(Get(last.io).signatureShares) = MaxShares
    /\ \E i \in 1..(MaxShares - 1) :
          Get(last.io).signatureShares[i].shareIndex
             > Get(last.io).signatureShares[i + 1].shareIndex
    /\ \E i, j \in 1..MaxShares :
          Get(last.io).signatureShares[i].unsignedJwt
             # Get(last.io).signatureShares[j].unsignedJwt

ClaimCalled == last.op = "claimKeyId" /\ last.pc # "idle"

\* C32: a claimKeyId call with a WebAuthn auth method fails; it sends no
\* request to any node and invokes no mint callback
C32_WebAuthnRejected ==
    (ClaimCalled /\ last.p.webAuthn)
        => /\ last.pc = "done"
           /\ last.err # ""
           /\ last.returned = ""
           /\ last.sent = <<>>
           /\ last.io = None

C32_Witness ==
    /\ ClaimCalled /\ last.p.webAuthn /\ last.ready
    /\ Len(connectedNodes) = NumNodes
    /\ last.err # ""

ClaimDone == last.op = "claimKeyId" /\ last.pc = "done"

\* the nodes that answered the batch that succeeded
ClaimAnswers == last.oks[Len(last.oks)]

\* C33: claimKeyId invokes the mint callback once, after the batch succeeded,
\* with one signature per node answer; it invokes the caller's mintCallback
\* whenever one was given and the default relay otherwise; when the batch
\* fails it invokes none and fails with UnknownError
C33_CallerMintCallbackUsed ==
    ClaimDone =>
        /\ last.returned = "success"
           => /\ IsSome(last.io)
              /\ Len(Get(last.io)) = 1
              /\ Cardinality(Get(last.io)[1].signatures) = Cardinality(ClaimAnswers)
              /\ Get(last.io)[1].callback =
                    IF last.p.mintCallback THEN "params.mintCallback"
                    ELSE "defaultMintClaimCallback"
        /\ last.returned # "success" => last.io = None
        /\ (last.returned # "success" /\ last.sent # <<>>)
           => last.err = "UnknownError"

\* what claimKeyId does: the caller's mintCallback is invoked only when the
\* params also carry a signer; otherwise the default relay is used
C33_MintCallbackNeedsSigner ==
    ClaimDone =>
        /\ last.returned = "success"
           => /\ IsSome(last.io)
              /\ Len(Get(last.io)) = 1
              /\ Cardinality(Get(last.io)[1].signatures) = Cardinality(ClaimAnswers)
              /\ Get(last.io)[1].callback =
                    IF last.p.mintCallback /\ last.p.signer
                    THEN "params.mintCallback"
                    ELSE "defaultMintClaimCallback"
        /\ last.returned # "success" => last.io = None
        /\ (last.returned # "success" /\ last.sent # <<>>)
           => last.err = "UnknownError"

TargetedCall == last.op = "runOnTargetedNodes" /\ last.pc # "idle"

SelectedUrls == {bootstrapUrls[last.sel[i] + 1] : i \in DOMAIN last.sel}

\* the requests of one run of the targeted wrapper
TargetedBatch(attempt) ==
    {i \in DOMAIN last.sent :
        last.sent[i].phase = "targeted" /\ last.sent[i].attempt = attempt}

\* C34: during a runOnTargetedNodes call every request goes to one of the
\* targetNodeRange selected nodes, each run of the wrapper sending exactly
\* one request to each of them, and no request goes to another node
C34_OnlySelectedNodes ==
    TargetedCall =>
        /\ \A i \in DOMAIN last.sent :
               /\ last.sent[i].phase = "targeted"
               /\ last.sent[i].url \in SelectedUrls
        /\ \A a \in 1..RetryTolerance :
               TargetedBatch(a) # {}
                  => /\ Cardinality(TargetedBatch(a)) = last.p.targetNodeRange
                     /\ {last.sent[i].url : i \in TargetedBatch(a)} = SelectedUrls

\* what runOnTargetedNodes does: getIpfsId first runs executeJs on every
\* connected node; the runs of the targeted wrapper that send anything then
\* reach the selected nodes, one request each
C34_TargetedPhaseOnlySelected ==
    TargetedCall =>
        /\ \A i \in DOMAIN last.sent :
               last.sent[i].phase = "targeted" => last.sent[i].url \in SelectedUrls
        /\ \A a \in 1..RetryTolerance :
               Cardinality(TargetedBatch(a)) = last.p.targetNodeRange
                  => {last.sent[i].url : i \in TargetedBatch(a)} = SelectedUrls
        /\ \A a \in 1..RetryTolerance :
               Cardinality(TargetedBatch(a)) <= last.p.targetNodeRange

AuthSigReturned ==
    /\ last.op \in {"generateAuthSig", "createCapacityDelegationAuthSig"}
    /\ last.pc = "done"
    /\ last.err = ""

\* the AuthSig invariant: sig verifies signedMessage under address
AuthSigVerifies(authSig) ==
    verifyMessage(authSig.signedMessage, authSig.sig) = authSig.address

\* C35: every AuthSig generateAuthSig returns verifies its signedMessage
\* under its address, carries toSign as signedMessage and
\* 'web3.eth.personal.sign' as derivedVia, whatever the signer and the
\* address argument
C35_AuthSigVerifies ==
    AuthSigReturned =>
        LET io == Get(last.io)
            authSig == Get(io.authSig)
        IN  /\ AuthSigVerifies(authSig)
            /\ authSig.signedMessage = io.toSign
            /\ authSig.derivedVia = "web3.eth.personal.sign"

\* what generateAuthSig does: the address argument is taken as it is, so
\* the AuthSig verifies exactly when no address is passed or the address
\* passed is the signer's
C35_VerifiesIfAddressIsSigners ==
    AuthSigReturned =>
        LET io == Get(last.io)
            authSig == Get(io.authSig)
        IN  /\ AuthSigVerifies(authSig)
                  <=> (~IsSome(io.address)
                        \/ getAddress(Get(io.address))
                              = getAddress(addressOfSigner(io.signer)))
            /\ authSig.signedMessage = io.toSign
            /\ authSig.derivedVia = "web3.eth.personal.sign"

\* a step of a request operation: its call, an answer, a retry, a selection
\* turn or the targeted dispatch
OperationStep == last' # last

SlotsUnchanged == sessionKeySlot' = sessionKeySlot /\ walletSlot' = walletSlot

\* C36 as stated: no step of a request operation changes the SESSION_KEY
\* slot, the WALLET_SIGNATURE slot or the connection snapshot
C36_OperationsLeaveSlots ==
    [][OperationStep => (SlotsUnchanged /\ UNCHANGED connVars)]_vars

\* C36: no step of a request operation changes the WALLET_SIGNATURE slot or
\* the connection snapshot, and the SESSION_KEY slot changes only when
\* signSessionKey, called without a sessionKey while none is stored, has the
\* session key store generate and store one
C36_OnlyKeyStoreWritesSlots ==
    [][OperationStep =>
          /\ walletSlot' = walletSlot
          /\ UNCHANGED connVars
          /\ sessionKeySlot' # sessionKeySlot
                => /\ last'.op = "signSessionKey"
                   /\ ~last'.p.sessionKey
                   /\ last.pc \in {"idle", "done"}
                   /\ last'.ready
                   /\ sessionKeyMissing(getStorageItem(sessionKeySlot))
                   /\ sessionKeySlot' = Some(JSONstringify(SessionKeyPair(nextKey)))]_vars

C36_Witness ==
    /\ last.op = "signSessionKey" /\ ~last.p.sessionKey
    /\ last.pc = "done" /\ last.returned = "success"
    /\ IsSome(sessionKeySlot)

\* the requests of one run of a wrapper
BatchOf(phase, attempt) ==
    {i \in DOMAIN last.sent :
        last.sent[i].phase = phase /\ last.sent[i].attempt = attempt}

InSelectionLoop == last.pc = "select"

\* C38: the selection loop of runOnTargetedNodes terminates, whatever
\* targetNodeRange and the number of nodes
C38_SelectionTerminates == InSelectionLoop ~> ~InSelectionLoop

\* what the loop does: it keeps indices that are new and below
\* bootstrapUrls.length, so it never holds more of them than there are
\* nodes, and with targetNodeRange above that number its test
\* randomSelectedNodeIndexes.length < targetNodeRange stays true
C38_NeverMoreThanNodes ==
    (last.op = "runOnTargetedNodes" /\ last.pc # "idle")
        => /\ Len(last.sel) <= Len(bootstrapUrls)
           /\ \A i, j \in DOMAIN last.sel : i # j => last.sel[i] # last.sel[j]
           /\ \A i \in DOMAIN last.sel : last.sel[i] < Len(bootstrapUrls)
           /\ (InSelectionLoop /\ last.p.targetNodeRange > Len(bootstrapUrls))
                 => Len(last.sel) < last.p.targetNodeRange
           /\ last.phase = "targeted"
                 => last.p.targetNodeRange <= Len(bootstrapUrls)

\* with targetNodeRange at most the number of nodes the loop is left
C38_TerminatesUpToNodeCount ==
    (InSelectionLoop /\ last.p.targetNodeRange <= Len(bootstrapUrls))
        ~> ~InSelectionLoop


\* an auth callback of call c that answered signed the uri and the resources it
\* was given, with the wallet's address
HonestAnswer(e) ==
    IsSome(e.ret) =>
        Get(e.ret) = AuthSigOf("0xgood", "0xWallet", e.args.uri, Get(e.args.resources))
HonestCall(c) ==
    /\ gs[c].err # "CallbackError"
    /\ \A i \in DOMAIN gs[c].cbLog : HonestAnswer(gs[c].cbLog[i])

\* the callback of call c answers in this step
CallbackAnswers(c) ==
    /\ gs[c].pc \in {"cb1", "cb2"}
    /\ gs'[c] # gs[c]
    /\ gs'[c].err # "CallbackError"
AnsweredEntry(c) == gs'[c].cbLog[Len(gs[c].cbLog)]

\* a finished call with honest callbacks succeeded, and every session sig it
\* returned is anchored on an AuthSig whose uri names the call's own key
CompletesOnOwnKey(c) ==
    (GsDone(c) /\ HonestCall(c)) =>
        /\ GsOk(c)
        /\ \A u \in DOMAIN SigsOf(c) :
              /\ AnchorOf(SigsOf(c)[u]).signedMessage.uri = uriOf(gs[c])
              /\ \A d \in CallIds \ {c} :
                    AnchorOf(SigsOf(c)[u]).signedMessage.uri
                        # getSessionKeyUri(OwnSessionKey(d).publicKey)

\* the calls whose storage write succeeded, and what they wrote
Writers == {c \in CallIds : \E i \in DOMAIN gs[c].cbLog : gs[c].cbLog[i].written}
WrittenBy(c) ==
    {Some(JSONstringify(Get(gs[c].cbLog[i].ret))) :
        i \in {j \in DOMAIN gs[c].cbLog : gs[c].cbLog[j].written}}

\* C39 as stated: two interleaved getSessionSigs calls, each with its own
\* session key and an honest wallet callback, both complete, neither is
\* anchored on an AuthSig naming the other's key, and once both are done the
\* WALLET_SIGNATURE slot holds the AuthSig of the last writer.
C39_SlotHoldsLastWriter ==
    /\ \A c \in CallIds : CompletesOnOwnKey(c)
    /\ ((\A c \in CallIds : GsDone(c) /\ HonestCall(c)) /\ Writers # {})
          => \E c \in Writers : walletSlot \in WrittenBy(c)

\* C39 (amended): both calls complete and neither is anchored on an AuthSig
\* naming the other's key; the slot is changed only by a callback that
\* answers: to that call's AuthSig when its storage write succeeds (last
\* writer wins), to nothing when the write of a re-sign fails and the item is
\* removed, and not at all when the write fails otherwise.
C39_LastWriterWinsIfWritable ==
    /\ [](\A c \in CallIds : CompletesOnOwnKey(c))
    /\ [][/\ \A c \in CallIds : CallbackAnswers(c) =>
                /\ AnsweredEntry(c).written =>
                      walletSlot' = Some(JSONstringify(Get(AnsweredEntry(c).ret)))
                /\ AnsweredEntry(c).removed => walletSlot' = None
                /\ (~AnsweredEntry(c).written /\ ~AnsweredEntry(c).removed) =>
                      walletSlot' = walletSlot
          /\ (\A c \in CallIds : ~CallbackAnswers(c)) => walletSlot' = walletSlot]_vars

\* both calls read the empty slot before either wrote it, both callbacks
\* answered honestly and both writes succeeded
C39_Witness ==
    /\ \A c \in CallIds :
          /\ GsOk(c) /\ HonestCall(c)
          /\ storageUp /\ gs[c].stored = Some(None)
          /\ Len(gs[c].cbLog) = 1 /\ gs[c].cbLog[1].written
          /\ DOMAIN SigsOf(c) # {}
    /\ WrittenBy(1) # WrittenBy(2)
    /\ walletSlot \in WrittenBy(1) \cup WrittenBy(2)


WalletCalled(name) == last.pc = "done" /\ last.op = name /\ IsSome(last.io)
WalletIo == Get(last.io)

\* transaction.from is given and is not the wallet's address
FromDiffers(transaction) ==
    /\ IsSome(transaction.from)
    /\ getAddress(Get(transaction.from)) # Some(WalletAddress)

LacksCredentials(prop) == ~prop.controllerAuthSig \/ prop.pkpPubKey = ""

\* C40 as stated: signTransaction with a transaction.from that differs from
\* the wallet address fails with an argument error, runLitAction without
\* controllerAuthSig or pkpPubKey fails, and in both cases no executeJs call
\* was made.
C40_InvalidRequestIsArgumentError ==
    /\ (WalletCalled("PKPWallet.signTransaction") /\ FromDiffers(WalletIo.transaction))
          => (last.err = "INVALID_ARGUMENT" /\ WalletIo.executeJs = <<>>)
    /\ (WalletCalled("PKPWallet.runLitAction") /\ LacksCredentials(WalletIo.prop))
          => (last.err # "" /\ WalletIo.executeJs = <<>>)

\* C40 (amended): in both cases the call fails and no executeJs call was made;
\* signTransaction fails with an argument error unless one of the provider
\* calls that fill in the missing fields threw first, and then it fails with
\* the provider's error, the test of transaction.from not being reached.
C40_InvalidRequestNeverSigns ==
    /\ (WalletCalled("PKPWallet.signTransaction") /\ FromDiffers(WalletIo.transaction))
          => /\ last.err \in {"INVALID_ARGUMENT", "provider error"}
             /\ last.err = "provider error" =>
                   /\ WalletIo.rpc # <<>>
                   /\ Len(WalletIo.rpc) <= Cardinality(WalletIo.transaction.lacks)
             /\ WalletIo.executeJs = <<>>
             /\ WalletIo.ret = None
    /\ (WalletCalled("PKPWallet.signTransaction") /\ LacksCredentials(WalletIo.prop))
          => (last.err # "" /\ WalletIo.executeJs = <<>>)
    /\ (WalletCalled("PKPWallet.runLitAction") /\ LacksCredentials(WalletIo.prop))
          => /\ last.err = "Error: controllerAuthSig and pkpPubKey are required"
             /\ WalletIo.executeJs = <<>>

\* a transaction from another address, all provider calls having answered,
\* was refused by a wallet that holds both credentials
C40_Witness ==
    /\ WalletCalled("PKPWallet.signTransaction")
    /\ WalletIo.transaction.from = Some("0xbb")
    /\ WalletIo.transaction.lacks = Range(ProviderFields)
    /\ Len(WalletIo.rpc) = Len(ProviderFields)
    /\ ~LacksCredentials(WalletIo.prop)
    /\ last.err = "INVALID_ARGUMENT"

====
